---- MODULE Spec2Model ----
(***************************************************************************)
(* Model of the response-parsing, field-validation and persistence path of *)
(* frontend/docker_artifacts/app.py: diagnose_doctor_notes (extraction of  *)
(* the structured record from the reasoning model's answer),               *)
(* save_diagnosis_to_db and save_diagnosis_to_db_button.                   *)
(*                                                                         *)
(* Text is a sequence of one-character strings, indexed from 1.  Python    *)
(* indices are 0-based; where the code keeps an index the model keeps the  *)
(* 1-based index of the same character and says so.                        *)
(***************************************************************************)
EXTENDS Integers, Sequences, FiniteSets, TLC

\* ------------------------------------------------------------------------
\* Bounds of the model
\* ------------------------------------------------------------------------
MaxOps == 2          \* number of user actions in one behaviour

\* ------------------------------------------------------------------------
\* Python str primitives
\* ------------------------------------------------------------------------
Chars(s) == [i \in 1..Len(s) |-> SubSeq(s, i, i)]

Quote == "\""

\* str.strip() removes these from both ends (the subset the inputs use)
PyWhitespace == {" ", "\n", "\t"}

Digits == {"0", "1", "2", "3", "4", "5", "6", "7", "8", "9"}

Min(S) == CHOOSE x \in S : \A y \in S : x <= y

MatchAt(s, sub, i) ==
    /\ i >= 1
    /\ i + Len(sub) - 1 <= Len(s)
    /\ SubSeq(s, i, i + Len(sub) - 1) = sub

\* `sub in s`
Contains(s, sub) == \E i \in 1..(Len(s) + 1) : MatchAt(s, sub, i)

\* s.find(sub, from): 1-based index of the first occurrence at or after
\* `from`, 0 when there is none (Python: 0-based, -1)
Find(s, sub, from) ==
    LET occ == {i \in from..(Len(s) + 1) : MatchAt(s, sub, i)}
    IN  IF occ = {} THEN 0 ELSE Min(occ)

\* s.split(sep)[1] for a text that contains sep: the text between the first
\* occurrence of sep and the next one after it (or the end of the text)
SplitSecond(s, sep) ==
    LET first == Find(s, sep, 1)
        from  == first + Len(sep)
        next  == Find(s, sep, from)
    IN  IF next = 0 THEN SubSeq(s, from, Len(s))
        ELSE SubSeq(s, from, next - 1)

RECURSIVE LStrip(_)
LStrip(s) ==
    IF s # <<>> /\ Head(s) \in PyWhitespace THEN LStrip(Tail(s)) ELSE s

RECURSIVE RStrip(_)
RStrip(s) ==
    IF s # <<>> /\ s[Len(s)] \in PyWhitespace
    THEN RStrip(SubSeq(s, 1, Len(s) - 1)) ELSE s

Strip(s) == RStrip(LStrip(s))

\* s.count(c) for a one-character c
Count(s, c) == Cardinality({i \in 1..Len(s) : s[i] = c})

\* s.replace(c, d) for one-character c and d
Replace(s, c, d) == [i \in 1..Len(s) |-> IF s[i] = c THEN d ELSE s[i]]

DigitVal(c) ==
    CASE c = "0" -> 0 [] c = "1" -> 1 [] c = "2" -> 2 [] c = "3" -> 3
      [] c = "4" -> 4 [] c = "5" -> 5 [] c = "6" -> 6 [] c = "7" -> 7
      [] c = "8" -> 8 [] c = "9" -> 9

DigitChar(n) == CHOOSE c \in Digits : DigitVal(c) = n

\* int(s) for a run of decimal digits
RECURSIVE ToInt(_)
ToInt(s) ==
    IF s = <<>> THEN 0
    ELSE 10 * ToInt(SubSeq(s, 1, Len(s) - 1)) + DigitVal(s[Len(s)])

\* str(n) for an integer
RECURSIVE NatToChars(_)
NatToChars(n) ==
    IF n < 10 THEN <<DigitChar(n)>>
    ELSE NatToChars(n \div 10) \o <<DigitChar(n % 10)>>

IntToChars(n) == IF n < 0 THEN <<"-">> \o NatToChars(0 - n) ELSE NatToChars(n)

\* ------------------------------------------------------------------------
\* JSON values (what json.loads returns)
\*   t : "null" | "true" | "false" | "num" | "str" | "arr" | "obj"
\*   n : the integer of a "num"
\*   s : the characters of a "str"
\*   m : the members of an "obj" (key k, value v, in insertion order) or the
\*       elements of an "arr" (k empty)
\* ------------------------------------------------------------------------
JNull    == [t |-> "null",  n |-> 0, s |-> <<>>, m |-> <<>>]
JTrue    == [t |-> "true",  n |-> 0, s |-> <<>>, m |-> <<>>]
JFalse   == [t |-> "false", n |-> 0, s |-> <<>>, m |-> <<>>]
JNum(i)  == [t |-> "num",   n |-> i, s |-> <<>>, m |-> <<>>]
JStr(cs) == [t |-> "str",   n |-> 0, s |-> cs,   m |-> <<>>]
JArr(es) == [t |-> "arr",   n |-> 0, s |-> <<>>, m |-> es]
JObj(ms) == [t |-> "obj",   n |-> 0, s |-> <<>>, m |-> ms]

Member(key, val) == [k |-> key, v |-> val]

\* dict[key] = val: a repeated key keeps its first position and takes the
\* last value
Put(ms, key, val) ==
    IF \E i \in 1..Len(ms) : ms[i].k = key
    THEN [i \in 1..Len(ms) |-> IF ms[i].k = key THEN Member(key, val) ELSE ms[i]]
    ELSE Append(ms, Member(key, val))

\* ------------------------------------------------------------------------
\* json.loads (json/decoder.py): objects, arrays, strings without escapes,
\* integers, true/false/null, insignificant whitespace.  The inputs of the
\* model contain no backslash, fraction, exponent, NaN or Infinity.
\* ------------------------------------------------------------------------
JsonWs == {" ", "\t", "\n", "\r"}

ControlChars == {"\n", "\t", "\r"}

PFail == [ok |-> FALSE, pos |-> 0, val |-> JNull]

POk(p, v) == [ok |-> TRUE, pos |-> p, val |-> v]

RECURSIVE SkipWs(_, _)
SkipWs(s, i) ==
    IF i <= Len(s) /\ s[i] \in JsonWs THEN SkipWs(s, i + 1) ELSE i

\* index of the quote that closes a string whose content starts at j; 0 when
\* the string is unterminated or holds a control character
RECURSIVE ScanString(_, _)
ScanString(s, j) ==
    IF j > Len(s) THEN 0
    ELSE IF s[j] = Quote THEN j
    ELSE IF s[j] \in ControlChars THEN 0
    ELSE ScanString(s, j + 1)

RECURSIVE DigitsEnd(_, _)
DigitsEnd(s, i) ==
    IF i <= Len(s) /\ s[i] \in Digits THEN DigitsEnd(s, i + 1) ELSE i

\* NUMBER_RE: -?(0|[1-9][0-9]*)
ParseNumber(s, i) ==
    LET neg == s[i] = "-"
        j   == IF neg THEN i + 1 ELSE i
        e   == IF j <= Len(s) /\ s[j] = "0" THEN j + 1 ELSE DigitsEnd(s, j)
        abs == ToInt(SubSeq(s, j, e - 1))
    IN  IF e = j THEN PFail
        ELSE POk(e, JNum(IF neg THEN 0 - abs ELSE abs))

RECURSIVE ParseValue(_, _)
RECURSIVE ParseMembers(_, _, _)
RECURSIVE ParseElements(_, _, _)

\* JSONObject, entered after the opening brace
ParseObject(s, i) ==
    LET j == SkipWs(s, i)
    IN  IF j <= Len(s) /\ s[j] = "}" THEN POk(j + 1, JObj(<<>>))
        ELSE ParseMembers(s, j, <<>>)

ParseMembers(s, j, acc) ==
    IF ~(j <= Len(s) /\ s[j] = Quote) THEN PFail
    ELSE LET q == ScanString(s, j + 1)
         IN  IF q = 0 THEN PFail
             ELSE LET key   == SubSeq(s, j + 1, q - 1)
                      colon == SkipWs(s, q + 1)
                  IN  IF ~(colon <= Len(s) /\ s[colon] = ":") THEN PFail
                      ELSE LET r == ParseValue(s, SkipWs(s, colon + 1))
                           IN  IF ~r.ok THEN PFail
                               ELSE LET e    == SkipWs(s, r.pos)
                                        acc2 == Put(acc, key, r.val)
                                    IN  IF e > Len(s) THEN PFail
                                        ELSE IF s[e] = "}" THEN POk(e + 1, JObj(acc2))
                                        ELSE IF s[e] = "," THEN ParseMembers(s, SkipWs(s, e + 1), acc2)
                                        ELSE PFail

\* JSONArray, entered after the opening bracket
ParseArray(s, i) ==
    LET j == SkipWs(s, i)
    IN  IF j <= Len(s) /\ s[j] = "]" THEN POk(j + 1, JArr(<<>>))
        ELSE ParseElements(s, j, <<>>)

ParseElements(s, j, acc) ==
    LET r == ParseValue(s, j)
    IN  IF ~r.ok THEN PFail
        ELSE LET e    == SkipWs(s, r.pos)
                 acc2 == Append(acc, Member(<<>>, r.val))
             IN  IF e > Len(s) THEN PFail
                 ELSE IF s[e] = "]" THEN POk(e + 1, JArr(acc2))
                 ELSE IF s[e] = "," THEN ParseElements(s, SkipWs(s, e + 1), acc2)
                 ELSE PFail

\* scanner.py: py_make_scanner._scan_once
ParseValue(s, i) ==
    IF i > Len(s) THEN PFail
    ELSE IF s[i] = Quote
         THEN LET q == ScanString(s, i + 1)
              IN  IF q = 0 THEN PFail ELSE POk(q + 1, JStr(SubSeq(s, i + 1, q - 1)))
    ELSE IF s[i] = "{" THEN ParseObject(s, i + 1)
    ELSE IF s[i] = "[" THEN ParseArray(s, i + 1)
    ELSE IF MatchAt(s, Chars("null"), i) THEN POk(i + 4, JNull)
    ELSE IF MatchAt(s, Chars("true"), i) THEN POk(i + 4, JTrue)
    ELSE IF MatchAt(s, Chars("false"), i) THEN POk(i + 5, JFalse)
    ELSE IF s[i] = "-" \/ s[i] \in Digits THEN ParseNumber(s, i)
    ELSE PFail

\* json.loads(s): ok = FALSE stands for json.JSONDecodeError
JsonLoads(s) ==
    LET r == ParseValue(s, SkipWs(s, 1))
    IN  IF r.ok /\ SkipWs(s, r.pos) = Len(s) + 1
        THEN [ok |-> TRUE, val |-> r.val]
        ELSE [ok |-> FALSE, val |-> JNull]

\* ------------------------------------------------------------------------
\* json.dumps(value, indent=2) (json/encoder.py: _make_iterencode)
\* ------------------------------------------------------------------------
Spaces(n) == [i \in 1..n |-> " "]

RECURSIVE Dumps(_, _)
RECURSIVE DumpItems(_, _, _, _)

DumpItems(ms, i, lvl, isObj) ==
    IF i > Len(ms) THEN <<>>
    ELSE (IF i > 1 THEN <<",">> ELSE <<>>)
         \o <<"\n">> \o Spaces(2 * lvl)
         \o (IF isObj THEN <<Quote>> \o ms[i].k \o <<Quote, ":", " ">> ELSE <<>>)
         \o Dumps(ms[i].v, lvl)
         \o DumpItems(ms, i + 1, lvl, isObj)

\* lvl is the nesting level of the value being written
Dumps(v, lvl) ==
    IF v.t = "null" THEN Chars("null")
    ELSE IF v.t = "true" THEN Chars("true")
    ELSE IF v.t = "false" THEN Chars("false")
    ELSE IF v.t = "num" THEN IntToChars(v.n)
    ELSE IF v.t = "str" THEN <<Quote>> \o v.s \o <<Quote>>
    ELSE IF v.t = "obj"
         THEN IF v.m = <<>> THEN Chars("{}")
              ELSE <<"{">> \o DumpItems(v.m, 1, lvl + 1, TRUE)
                   \o <<"\n">> \o Spaces(2 * lvl) \o <<"}">>
    ELSE IF v.m = <<>> THEN Chars("[]")
         ELSE <<"[">> \o DumpItems(v.m, 1, lvl + 1, FALSE)
              \o <<"\n">> \o Spaces(2 * lvl) \o <<"]">>

JsonDumps(v) == Dumps(v, 0)

\* ------------------------------------------------------------------------
\* datetime.strptime (Lib/_strptime.py).  The format is compiled to a regular
\* expression whose directives are ordered alternatives:
\*   %Y \d\d\d\d      %m 1[0-2]|0[1-9]|[1-9]
\*   %d 3[0-1]|[1-2]\d|0[1-9]|[1-9]| [1-9]
\*   %H 2[0-3]|[0-1]\d|\d    %M [0-5]\d|\d    %S 6[0-1]|[0-5]\d|\d
\* and a blank of the format becomes \s+.  The match is anchored at the start
\* of the text; text left over after the match is a ValueError, and so is a
\* matched date or time that does not exist.
\* ------------------------------------------------------------------------
CharAt(s, i, c) == i >= 1 /\ i <= Len(s) /\ s[i] = c

DigitAt(s, i) == i >= 1 /\ i <= Len(s) /\ s[i] \in Digits

DigitIn(s, i, lo, hi) == DigitAt(s, i) /\ DigitVal(s[i]) \in lo..hi

\* \s of the regular expression (the subset the inputs use)
ReWs == {" ", "\t", "\n", "\r"}

\* the lengths of the alternatives of a directive that match at p, in the
\* order the regular expression tries them
MonthLens(s, p) ==
    (IF (CharAt(s, p, "1") /\ DigitIn(s, p + 1, 0, 2))
        \/ (CharAt(s, p, "0") /\ DigitIn(s, p + 1, 1, 9)) THEN <<2>> ELSE <<>>)
    \o (IF DigitIn(s, p, 1, 9) THEN <<1>> ELSE <<>>)

DayLens(s, p) ==
    (IF \/ (CharAt(s, p, "3") /\ DigitIn(s, p + 1, 0, 1))
        \/ (DigitIn(s, p, 1, 2) /\ DigitAt(s, p + 1))
        \/ (CharAt(s, p, "0") /\ DigitIn(s, p + 1, 1, 9)) THEN <<2>> ELSE <<>>)
    \o (IF DigitIn(s, p, 1, 9) THEN <<1>> ELSE <<>>)
    \o (IF CharAt(s, p, " ") /\ DigitIn(s, p + 1, 1, 9) THEN <<2>> ELSE <<>>)

HourLens(s, p) ==
    (IF \/ (CharAt(s, p, "2") /\ DigitIn(s, p + 1, 0, 3))
        \/ (DigitIn(s, p, 0, 1) /\ DigitAt(s, p + 1)) THEN <<2>> ELSE <<>>)
    \o (IF DigitAt(s, p) THEN <<1>> ELSE <<>>)

MinuteLens(s, p) ==
    (IF DigitIn(s, p, 0, 5) /\ DigitAt(s, p + 1) THEN <<2>> ELSE <<>>)
    \o (IF DigitAt(s, p) THEN <<1>> ELSE <<>>)

SecondLens(s, p) ==
    (IF \/ (CharAt(s, p, "6") /\ DigitIn(s, p + 1, 0, 1))
        \/ (DigitIn(s, p, 0, 5) /\ DigitAt(s, p + 1)) THEN <<2>> ELSE <<>>)
    \o (IF DigitAt(s, p) THEN <<1>> ELSE <<>>)

\* the first alternative after which the rest of the expression matches;
\* 0 when there is none
PickFirst(lens, good) ==
    LET idx == {i \in DOMAIN lens : lens[i] \in good}
    IN  IF idx = {} THEN 0 ELSE lens[Min(idx)]

RECURSIVE SkipReWs(_, _)
SkipReWs(s, i) ==
    IF i <= Len(s) /\ s[i] \in ReWs THEN SkipReWs(s, i + 1) ELSE i

YearAt(s) == \A i \in 1..4 : DigitAt(s, i)

\* int() of a matched group: the digits of the group (" 5" is 5)
GroupInt(s, p, n) == ToInt(SelectSeq(SubSeq(s, p, p + n - 1), LAMBDA c : c \in Digits))

IsLeap(y) == (y % 4 = 0 /\ y % 100 # 0) \/ y % 400 = 0

DaysInMonth(y, m) ==
    IF m = 2 THEN (IF IsLeap(y) THEN 29 ELSE 28)
    ELSE IF m \in {4, 6, 9, 11} THEN 30 ELSE 31

\* datetime.date(y, m, d) exists (MINYEAR = 1)
DateExists(y, m, d) == y >= 1 /\ m \in 1..12 /\ d >= 1 /\ d <= DaysInMonth(y, m)

\* %m at position 6 of a date, followed by "-" and %d
DateMonthLen(s) ==
    PickFirst(MonthLens(s, 6),
              {n \in {1, 2} : CharAt(s, 6 + n, "-") /\ DayLens(s, 7 + n) # <<>>})

\* the rest of the match and the checks made on the matched groups
DateFromDay(s, mLen, dPos, dLen) ==
    /\ dPos + dLen - 1 = Len(s)
    /\ DateExists(ToInt(SubSeq(s, 1, 4)), GroupInt(s, 6, mLen), GroupInt(s, dPos, dLen))

DateFromMonth(s, mLen) ==
    mLen # 0 /\ DateFromDay(s, mLen, 7 + mLen, Head(DayLens(s, 7 + mLen)))

\* datetime.strptime(s, "%Y-%m-%d") returns (TRUE) or raises ValueError
StrptimeDate(s) ==
    /\ YearAt(s)
    /\ CharAt(s, 5, "-")
    /\ DateFromMonth(s, DateMonthLen(s))

\* %M at q, followed by ":" and %S
MinuteLen(s, q) ==
    PickFirst(MinuteLens(s, q),
              {n \in {1, 2} : CharAt(s, q + n, ":") /\ SecondLens(s, q + n + 1) # <<>>})

\* %H at p, followed by ":", %M, ":" and %S
HourLen(s, p) ==
    PickFirst(HourLens(s, p),
              {n \in {1, 2} : CharAt(s, p + n, ":") /\ MinuteLen(s, p + n + 1) # 0})

TimeFromSecond(s, sPos, sLen) == [end |-> sPos + sLen, sec |-> GroupInt(s, sPos, sLen)]

TimeFromMinute(s, nPos, nLen) ==
    TimeFromSecond(s, nPos + nLen + 1, Head(SecondLens(s, nPos + nLen + 1)))

TimeFromHour(s, p, hLen) ==
    IF hLen = 0 THEN [end |-> 0, sec |-> 0]
    ELSE TimeFromMinute(s, p + hLen + 1, MinuteLen(s, p + hLen + 1))

\* the time part %H:%M:%S matched at p: end is the position after it (0 when
\* it does not match), sec the value of the %S group
TimeMatch(s, p) == TimeFromHour(s, p, HourLen(s, p))

\* %d at q, followed by \s+ and the time part
DateTimeDayLen(s, q) ==
    PickFirst(DayLens(s, q),
              {n \in {1, 2} : /\ q + n <= Len(s)
                              /\ s[q + n] \in ReWs
                              /\ TimeMatch(s, SkipReWs(s, q + n)).end # 0})

\* %m at position 6, followed by "-", %d, \s+ and the time part
DateTimeMonthLen(s) ==
    PickFirst(MonthLens(s, 6),
              {n \in {1, 2} : CharAt(s, 6 + n, "-") /\ DateTimeDayLen(s, 7 + n) # 0})

\* the end of the match and the checks made on the matched groups
DateTimeFromTime(s, mLen, dPos, dLen, tm) ==
    /\ tm.end = Len(s) + 1
    /\ DateExists(ToInt(SubSeq(s, 1, 4)), GroupInt(s, 6, mLen), GroupInt(s, dPos, dLen))
    /\ tm.sec <= 59

DateTimeFromDay(s, mLen, dPos, dLen) ==
    DateTimeFromTime(s, mLen, dPos, dLen, TimeMatch(s, SkipReWs(s, dPos + dLen)))

DateTimeFromMonth(s, mLen) ==
    mLen # 0 /\ DateTimeFromDay(s, mLen, 7 + mLen, DateTimeDayLen(s, 7 + mLen))

\* datetime.strptime(s, "%Y-%m-%d %H:%M:%S") returns (TRUE) or raises
\* ValueError
StrptimeDateTime(s) ==
    /\ YearAt(s)
    /\ CharAt(s, 5, "-")
    /\ DateTimeFromMonth(s, DateTimeMonthLen(s))

\* ------------------------------------------------------------------------
\* Python operations on a decoded JSON value
\* ------------------------------------------------------------------------
\* bool(v)
Truthy(v) ==
    IF v.t = "true" THEN TRUE
    ELSE IF v.t = "num" THEN v.n # 0
    ELSE IF v.t = "str" THEN v.s # <<>>
    ELSE IF v.t \in {"arr", "obj"} THEN v.m # <<>>
    ELSE FALSE

HasKey(d, key) == \E i \in 1..Len(d.m) : d.m[i].k = key

ValueOf(d, key) == d.m[CHOOSE i \in 1..Len(d.m) : d.m[i].k = key].v

\* an expression either returns a value or raises
Ret(v) == [raised |-> FALSE, val |-> v]

Exc == [raised |-> TRUE, val |-> JNull]

\* `key in v`: "yes", "no", or "raise" (TypeError: not iterable)
PyIn(key, v) ==
    IF v.t = "obj" THEN (IF HasKey(v, key) THEN "yes" ELSE "no")
    ELSE IF v.t = "arr"
         THEN (IF \E i \in 1..Len(v.m) : v.m[i].v = JStr(key) THEN "yes" ELSE "no")
    ELSE IF v.t = "str" THEN (IF Contains(v.s, key) THEN "yes" ELSE "no")
    ELSE "raise"

\* v[key] for a string key: KeyError on a dict without it, TypeError otherwise
PyItem(v, key) ==
    IF v.t = "obj" /\ HasKey(v, key) THEN Ret(ValueOf(v, key)) ELSE Exc

\* v[0]: IndexError, KeyError or TypeError when there is no such element
PyFirst(v) ==
    IF v.t = "arr" /\ v.m # <<>> THEN Ret(v.m[1].v)
    ELSE IF v.t = "str" /\ v.s # <<>> THEN Ret(JStr(<<v.s[1]>>))
    ELSE Exc

\* len(v) > 0; "raise" for a value without len()
PyNonEmpty(v) ==
    IF v.t = "str" THEN (IF v.s # <<>> THEN "yes" ELSE "no")
    ELSE IF v.t \in {"arr", "obj"} THEN (IF v.m # <<>> THEN "yes" ELSE "no")
    ELSE "raise"

\* ------------------------------------------------------------------------
\* save_diagnosis_to_db: field validation
\* ------------------------------------------------------------------------
NA == Chars("N/A")

NoJsonFound == Chars("No JSON found in response")

InvalidJsonFormat == Chars("Invalid JSON format")

NoValidJsonFound == Chars("No valid JSON found in response")

\* a variant of diagnosis_data.get that forgets the default
DictGetNoDefault(d, key, default) ==
    IF HasKey(d, key) THEN ValueOf(d, key) ELSE JNull

\* diagnosis_data.get(key, default)
DictGet(d, key, default) ==
    IF HasKey(d, key) THEN ValueOf(d, key) ELSE default

\* lines 240-247 on the value read from the payload.  strptime raises
\* TypeError for an argument that is not a str; only ValueError is caught.
ValidateDateOfBirth(v) ==
    IF v = JStr(NA) \/ ~Truthy(v) THEN Ret(JStr(NA))
    ELSE IF v.t # "str" THEN Exc
    ELSE IF StrptimeDate(v.s) THEN Ret(v)
    ELSE Ret(JStr(NA))

\* lines 256-257
ReplaceT(text) == IF Contains(text, <<"T">>) THEN Replace(text, "T", " ") ELSE text

\* a variant of lines 260-262 that appends the midnight time to every text
\* with two hyphens, whatever its length
AppendMidnightNoLength(text) ==
    IF Count(text, "-") = 2 THEN text \o Chars(" 00:00:00") ELSE text

\* lines 260-262
AppendMidnight(text) ==
    IF Len(Strip(text)) = 10 /\ Count(text, "-") = 2
    THEN text \o Chars(" 00:00:00") ELSE text

\* lines 264-267
CheckedVisitTime(text) ==
    IF StrptimeDateTime(text) THEN Ret(JStr(text)) ELSE Ret(JStr(NA))

\* lines 251-267 on the value read from the payload.  On a truthy value that
\* is not a str, `"T" in visit_time` raises TypeError (number, true) or
\* .replace / .strip raise AttributeError (list, dict); neither is caught by
\* `except ValueError`.
NormalizeVisitTime(v) ==
    IF v = JStr(NA) \/ ~Truthy(v) THEN Ret(JStr(NA))
    ELSE IF v.t # "str" THEN Exc
    ELSE CheckedVisitTime(AppendMidnight(ReplaceT(v.s)))

\* `None if x == "N/A" else x` (None is written JNull)
NullIfNA(v) == IF v = JStr(NA) THEN JNull ELSE v

\* the columns of the INSERT, in order
Columns ==
    << "patient_name", "date_of_birth", "visit_time", "severity",
       "primary_diagnosis", "secondary_diagnoses", "recommended_tests",
       "recommended_treatment", "follow_up" >>

TextColumns == {1, 4, 5, 6, 7, 8, 9}

\* a variant of lines 275-299 that stores medical_reasoning in the last column
ExecuteArgsWithReasoning(data, dob, visit) ==
    IF dob.raised \/ visit.raised THEN [raised |-> TRUE, args |-> <<>>]
    ELSE [raised |-> FALSE,
          args |-> [c \in 1..9 |->
                     IF c = 2 THEN NullIfNA(dob.val)
                     ELSE IF c = 3 THEN NullIfNA(visit.val)
                     ELSE IF c = 9 THEN DictGet(data, Chars("medical_reasoning"), JStr(NA))
                     ELSE DictGet(data, Chars(Columns[c]), JStr(NA))]]

\* lines 289-299: the tuple handed to cursor.execute
ExecuteArgs(data, dob, visit) ==
    IF dob.raised \/ visit.raised THEN [raised |-> TRUE, args |-> <<>>]
    ELSE [raised |-> FALSE,
          args |-> [c \in 1..9 |->
                     IF c = 2 THEN NullIfNA(dob.val)
                     ELSE IF c = 3 THEN NullIfNA(visit.val)
                     ELSE DictGet(data, Chars(Columns[c]), JStr(NA))]]

\* lines 236-299: the tuple handed to cursor.execute, or an exception raised
\* while validating (AttributeError of .get on a payload that is no dict
\* included)
InsertArgs(data) ==
    IF data.t # "obj" THEN [raised |-> TRUE, args |-> <<>>]
    ELSE ExecuteArgs(data,
                     ValidateDateOfBirth(DictGet(data, Chars("date_of_birth"), JStr(NA))),
                     NormalizeVisitTime(DictGet(data, Chars("visit_time"), JStr(NA))))

\* ------------------------------------------------------------------------
\* save_diagnosis_to_db and its button
\* ------------------------------------------------------------------------
\* what the database does during one save
DbOutcomes == {"ok", "connect_fails", "execute_fails", "commit_fails"}

\* str(e) of an exception; the text is not interpreted
ExcText == Chars("<exception>")

MsgNoValidData == Chars("No valid data to save to database.")

MsgParseFailed == Chars("Failed to parse JSON data.")

MsgDatabaseError == Chars("Database error: ") \o ExcText

MsgError == Chars("Error: ") \o ExcText

MsgSaved(id) == Chars("Diagnosis saved successfully to database with ID: ") \o IntToChars(id)

MsgNoData == Chars("No data to save. Please run a diagnosis first.")

\* The outcome of one call: the pair returned (ok, msg), the place the call
\* returned from (reached), and what it did to the database on the way:
\* connects = calls of pymysql.connect, opened = a connection was obtained,
\* executed = cursor.execute was called with args, committed, closed.
SaveOutcome(ok, msg, reached, connects, opened, executed, args, committed, closed) ==
    [ok |-> ok, msg |-> msg, reached |-> reached, connects |-> connects,
     opened |-> opened, executed |-> executed, args |-> args,
     committed |-> committed, closed |-> closed]

\* line 221
SaveGuard(json_data) ==
    json_data = <<>> \/ json_data = NoJsonFound \/ json_data = InvalidJsonFormat

\* a variant of the except clauses without lines 316-318: an exception that
\* is no pymysql.MySQLError leaves the function
SaveExceptMySQLOnly(exc, reached, opened, executed, args) ==
    IF exc = "MySQLError"
    THEN SaveOutcome(FALSE, MsgDatabaseError, reached, 1, opened, executed, args, FALSE, FALSE)
    ELSE SaveOutcome(FALSE, <<>>, "propagated", 1, opened, executed, args, FALSE, FALSE)

\* lines 313-318: the except clauses, entered with an exception of class exc
\* ("MySQLError", or "Exception" for every other class) that was raised at
\* `reached`; neither clause closes the connection
SaveExcept(exc, reached, opened, executed, args) ==
    IF exc = "MySQLError"
    THEN SaveOutcome(FALSE, MsgDatabaseError, reached, 1, opened, executed, args, FALSE, FALSE)
    ELSE SaveOutcome(FALSE, MsgError, reached, 1, opened, executed, args, FALSE, FALSE)

\* a variant of lines 289-311 that reports success although the commit failed
SaveExecuteNoCommit(a, dbo, next_id) ==
    IF a.raised
    THEN SaveExcept("Exception", "validate", TRUE, FALSE, <<>>)
    ELSE IF dbo = "execute_fails"
    THEN SaveExcept("MySQLError", "execute", TRUE, TRUE, a.args)
    ELSE SaveOutcome(TRUE, MsgSaved(next_id), "return", 1, TRUE, TRUE, a.args,
                     dbo # "commit_fails", TRUE)

\* lines 289-318, entered with the validated values a
SaveExecute(a, dbo, next_id) ==
    IF a.raised
    THEN SaveExcept("Exception", "validate", TRUE, FALSE, <<>>)
    ELSE IF dbo = "execute_fails"
    THEN SaveExcept("MySQLError", "execute", TRUE, TRUE, a.args)
    ELSE IF dbo = "commit_fails"
    THEN SaveExcept("MySQLError", "commit", TRUE, TRUE, a.args)
    ELSE SaveOutcome(TRUE, MsgSaved(next_id), "return", 1, TRUE, TRUE, a.args, TRUE, TRUE)

\* lines 233-318, entered with an open connection
SaveInsert(data, dbo, next_id) == SaveExecute(InsertArgs(data), dbo, next_id)

\* a variant of lines 224-318 that connects before it looks at the result of
\* json.loads
SaveParsedConnectFirst(parsed, dbo, next_id) ==
    IF dbo = "connect_fails"
    THEN SaveOutcome(FALSE, MsgDatabaseError, "connect", 1, FALSE, FALSE, <<>>, FALSE, FALSE)
    ELSE IF ~parsed.ok
    THEN SaveOutcome(FALSE, MsgParseFailed, "parse", 1, TRUE, FALSE, <<>>, FALSE, FALSE)
    ELSE SaveInsert(parsed.val, dbo, next_id)

\* lines 224-318, entered with the result of json.loads
SaveParsed(parsed, dbo, next_id) ==
    IF ~parsed.ok
    THEN SaveOutcome(FALSE, MsgParseFailed, "parse", 0, FALSE, FALSE, <<>>, FALSE, FALSE)
    ELSE IF dbo = "connect_fails"
    THEN SaveExcept("MySQLError", "connect", FALSE, FALSE, <<>>)
    ELSE SaveInsert(parsed.val, dbo, next_id)

\* a variant without the check of line 221
SaveDiagnosisToDbNoGuard(json_data, dbo, next_id) ==
    SaveParsed(JsonLoads(json_data), dbo, next_id)

\* save_diagnosis_to_db(json_data) when the database behaves as dbo and the
\* next AUTO_INCREMENT value of the table is next_id
SaveDiagnosisToDb(json_data, dbo, next_id) ==
    IF SaveGuard(json_data)
    THEN SaveOutcome(FALSE, MsgNoValidData, "guard", 0, FALSE, FALSE, <<>>, FALSE, FALSE)
    ELSE SaveParsed(JsonLoads(json_data), dbo, next_id)

\* save_diagnosis_to_db_button(json_data): the message shown, with the
\* outcome of the save it made (reached = "button" when it made none)
SaveDiagnosisToDbButton(json_data, dbo, next_id) ==
    IF json_data = <<>>
    THEN SaveOutcome(FALSE, MsgNoData, "button", 0, FALSE, FALSE, <<>>, FALSE, FALSE)
    ELSE SaveDiagnosisToDb(json_data, dbo, next_id)

\* ------------------------------------------------------------------------
\* diagnose_doctor_notes
\* ------------------------------------------------------------------------
TriageMarker == Chars("## Triage Summary")

FinalMarker == Chars("## Final Answer")

\* lines 1305-1317: the text of the answer inside the decoded response
RawResponse(result) ==
    LET hasChoices == PyIn(Chars("choices"), result)
        choices    == PyItem(result, Chars("choices"))
        nonEmpty   == IF choices.raised THEN "raise" ELSE PyNonEmpty(choices.val)
        c0         == PyFirst(choices.val)
        hasText    == PyIn(Chars("text"), c0.val)
        hasMessage == PyIn(Chars("message"), c0.val)
        message    == PyItem(c0.val, Chars("message"))
        hasResp    == PyIn(Chars("response"), result)
        hasGen     == PyIn(Chars("generations"), result)
        gens       == PyItem(result, Chars("generations"))
        g0         == PyFirst(gens.val)
    IN  IF hasChoices = "raise" THEN Exc
        ELSE IF hasChoices = "yes" /\ nonEmpty = "raise" THEN Exc
        ELSE IF hasChoices = "yes" /\ nonEmpty = "yes"
        THEN IF c0.raised \/ hasText = "raise" THEN Exc
             ELSE IF hasText = "yes" THEN PyItem(c0.val, Chars("text"))
             ELSE IF hasMessage = "yes"
                  THEN (IF message.raised THEN Exc
                        ELSE PyItem(message.val, Chars("content")))
             ELSE Ret(JStr(JsonDumps(c0.val)))
        ELSE IF hasResp = "yes" THEN PyItem(result, Chars("response"))
        ELSE IF hasGen = "yes"
        THEN IF gens.raised \/ g0.raised THEN Exc
             ELSE PyItem(g0.val, Chars("text"))
        ELSE Ret(JStr(JsonDumps(result)))

\* lines 1334-1343: 1-based index of the brace at which open_count returns
\* to zero, scanning from i; -1 when it never does.  (Python's end, the
\* 0-based index just past that brace, is the same number.)
RECURSIVE ScanBraces(_, _, _)
ScanBraces(s, i, open_count) ==
    IF i > Len(s) THEN -1
    ELSE IF s[i] = "{" THEN ScanBraces(s, i + 1, open_count + 1)
    ELSE IF s[i] = "}"
         THEN (IF open_count - 1 = 0 THEN i ELSE ScanBraces(s, i + 1, open_count - 1))
    ELSE ScanBraces(s, i + 1, open_count)

\* a variant that takes the last closing brace of the text
LastBraceEnd(s, start) ==
    LET closing == {i \in start..Len(s) : s[i] = "}"}
    IN  IF closing = {} THEN -1 ELSE CHOOSE i \in closing : \A j \in closing : j <= i

\* end of the object that starts at the 1-based index start
BalancedEnd(s, start) == ScanBraces(s, start, 0)

\* lines 1323-1328
AfterMarker(raw) ==
    IF Contains(raw, TriageMarker) THEN Strip(SplitSecond(raw, TriageMarker))
    ELSE IF Contains(raw, FinalMarker) THEN Strip(SplitSecond(raw, FinalMarker))
    ELSE raw

Extraction(out, site, after, json_str) ==
    [out |-> out, site |-> site, after |-> after, json_str |-> json_str]

\* lines 1348-1353
ParsedOutput(after, json_str, parsed) ==
    IF parsed.ok
    THEN Extraction(JsonDumps(parsed.val), "1351", after, json_str)
    ELSE Extraction(InvalidJsonFormat, "1353", after, json_str)

\* lines 1345-1355 (Python's start is the 0-based index, start - 1)
BoundedOutput(after, start, end) ==
    IF end > start - 1
    THEN ParsedOutput(after, SubSeq(after, start, end), JsonLoads(SubSeq(after, start, end)))
    ELSE Extraction(NoValidJsonFound, "1355", after, <<>>)

\* lines 1331-1357
ScannedOutput(after, start) ==
    IF Contains(after, <<"{">>) /\ Contains(after, <<"}">>)
    THEN BoundedOutput(after, start, BalancedEnd(after, start))
    ELSE Extraction(NoJsonFound, "1357", after, <<>>)

ExtractAfter(after) == ScannedOutput(after, Find(after, <<"{">>, 1))

\* lines 1320-1360 for a raw_response that is a str: json_output, the line
\* that assigned it, and the values of after_marker and json_str
ExtractJson(raw) == ExtractAfter(AfterMarker(raw))

MsgErrorExtracting == Chars("Error extracting JSON: ") \o ExcText

\* lines 1320-1360 for a raw_response of any JSON type.  On a value that is
\* not a str the `in` tests raise TypeError (null, number, boolean) or test
\* membership (list, dict), and .split / .find raise AttributeError; every
\* exception is caught at line 1358.
ExtractJsonAny(rawval) ==
    LET inTriage == PyIn(TriageMarker, rawval)
        inFinal  == PyIn(FinalMarker, rawval)
        inOpen   == PyIn(<<"{">>, rawval)
        inClose  == PyIn(<<"}">>, rawval)
    IN  IF rawval.t = "str" THEN ExtractJson(rawval.s)
        ELSE IF inTriage # "no" \/ inFinal # "no"
        THEN Extraction(MsgErrorExtracting, "1360", <<>>, <<>>)
        ELSE IF inOpen = "yes" /\ inClose = "yes"
        THEN Extraction(MsgErrorExtracting, "1360", <<>>, <<>>)
        ELSE Extraction(NoJsonFound, "1357", <<>>, <<>>)

\* what gr.Textbox shows for a returned value: the str itself, nothing for
\* None, str(v) for a number
TextboxValue(v) ==
    IF v.t = "str" THEN v.s
    ELSE IF v.t = "num" THEN IntToChars(v.n)
    ELSE <<>>

MsgNoTranscription == Chars("No transcription to analyze. Please transcribe audio first.")

MsgAnalysisComplete == Chars("Analysis complete.")

MsgStatusCode(code) == Chars("Error: MedReason API returned status code ") \o IntToChars(code)

MsgApiStatus(code) == Chars("Error: API returned status ") \o IntToChars(code)

\* The outcome of one call: the three values returned (raw, json, status),
\* the line that assigned json (site), the number of HTTP requests sent, and
\* the values of after_marker and json_str.
DiagnoseOutcome(raw, json, status, site, requests, after, json_str) ==
    [raw |-> raw, json |-> json, status |-> status, site |-> site,
     requests |-> requests, after |-> after, json_str |-> json_str]

\* line 1362
Analysed(rawval, ex) ==
    DiagnoseOutcome(TextboxValue(rawval), ex.out, MsgAnalysisComplete,
                    ex.site, 1, ex.after, ex.json_str)

\* lines 1319-1369, entered with the outcome of lines 1305-1317
DiagnoseRaw(raw) ==
    IF raw.raised
    THEN DiagnoseOutcome(<<>>, MsgError, MsgError, "1369", 1, <<>>, <<>>)
    ELSE Analysed(raw.val, ExtractJsonAny(raw.val))

\* diagnose_doctor_notes(transcription, ...) when the MedReason endpoint
\* answers with reply:
\*   kind "raise": requests.post raises (timeout, connection error)
\*   kind "http":  a response with status `code`; decoded says whether
\*                 response.json() succeeds, body is what it returns
DiagnoseDoctorNotes(transcription, reply) ==
    IF transcription = <<>> \/ Strip(transcription) = <<>>
    THEN DiagnoseOutcome(<<>>, <<>>, MsgNoTranscription, "1231", 0, <<>>, <<>>)
    ELSE IF reply.kind = "raise"
    THEN DiagnoseOutcome(<<>>, MsgError, MsgError, "1369", 1, <<>>, <<>>)
    ELSE IF reply.code # 200
    THEN DiagnoseOutcome(<<>>, MsgStatusCode(reply.code), MsgApiStatus(reply.code),
                         "1365", 1, <<>>, <<>>)
    ELSE IF ~reply.decoded
    THEN DiagnoseOutcome(<<>>, MsgError, MsgError, "1369", 1, <<>>, <<>>)
    ELSE DiagnoseRaw(RawResponse(reply.body))

\* ------------------------------------------------------------------------
\* language lookups
\* ------------------------------------------------------------------------
UpperCase == Chars("ABCDEFGHIJKLMNOPQRSTUVWXYZ")

LowerCase == Chars("abcdefghijklmnopqrstuvwxyz")

LowerChar(c) ==
    IF \E i \in 1..26 : UpperCase[i] = c
    THEN LowerCase[CHOOSE i \in 1..26 : UpperCase[i] = c]
    ELSE c

\* s.lower() for ASCII text
Lower(s) == [i \in 1..Len(s) |-> LowerChar(s[i])]

UpperChar(c) ==
    IF \E i \in 1..26 : LowerCase[i] = c
    THEN UpperCase[CHOOSE i \in 1..26 : LowerCase[i] = c]
    ELSE c

Upper(s) == [i \in 1..Len(s) |-> UpperChar(s[i])]

\* lines 334-349: the lists tested, in order, with the value returned
LanguageCodeChain ==
    << <<"bg", "bulgarian">>, <<"en", "english">>, <<"de", "german">>, <<"pl", "polish">>,
       <<"cs", "czech">>, <<"sk", "slovak">>, <<"uk", "ukrainian">>, <<"fi", "finnish">> >>

\* lines 334-352 for the normalized name
LanguageCodeOf(normalized) ==
    IF \E i \in 1..8 : normalized \in {Chars(LanguageCodeChain[i][1]), Chars(LanguageCodeChain[i][2])}
    THEN Chars(LanguageCodeChain[CHOOSE i \in 1..8 :
                 normalized \in {Chars(LanguageCodeChain[i][1]), Chars(LanguageCodeChain[i][2])}][2])
    ELSE Chars("english")

\* get_language_code(language_name); .lower() of a value that is no text
\* raises AttributeError
GetLanguageCode(language_name) ==
    IF ~Truthy(language_name) THEN Ret(JStr(LanguageCodeOf(Chars("english"))))
    ELSE IF language_name.t # "str" THEN Exc
    ELSE Ret(JStr(LanguageCodeOf(Lower(language_name.s))))

\* lines 356-365
IsoLanguageMap ==
    << <<"English", "en">>, <<"German", "de">>, <<"Polish", "pl">>, <<"Czech", "cs">>,
       <<"Slovak", "sk">>, <<"Ukrainian", "uk">>, <<"Bulgarian", "bg">>, <<"Finnish", "fi">> >>

\* table.get(key, default) for a table of pairs of texts and a text key
TableGet(table, key, default) ==
    IF \E i \in 1..Len(table) : Chars(table[i][1]) = key
    THEN Chars(table[CHOOSE i \in 1..Len(table) : Chars(table[i][1]) = key][2])
    ELSE Chars(default)

\* a variant of line 366 whose default is the one of normalize_language_name
GetIsoLanguageCodeUnknown(language_name) ==
    IF language_name.t \in {"arr", "obj"} THEN Exc
    ELSE IF language_name.t # "str" THEN Ret(JStr(Chars("Unknown")))
    ELSE Ret(JStr(TableGet(IsoLanguageMap, language_name.s, "Unknown")))

\* get_iso_language_code(language_name); a list or dict is no dict key
\* (TypeError), every other value that is no key of the map gets the default
GetIsoLanguageCode(language_name) ==
    IF language_name.t \in {"arr", "obj"} THEN Exc
    ELSE IF language_name.t # "str" THEN Ret(JStr(Chars("en")))
    ELSE Ret(JStr(TableGet(IsoLanguageMap, language_name.s, "en")))

\* lines 370-387
CodeMap ==
    << <<"bg", "Bulgarian">>, <<"en", "English">>, <<"de", "German">>, <<"pl", "Polish">>,
       <<"cs", "Czech">>, <<"sk", "Slovak">>, <<"uk", "Ukrainian">>, <<"fi", "Finnish">>,
       <<"bulgarian", "Bulgarian">>, <<"english", "English">>, <<"german", "German">>,
       <<"polish", "Polish">>, <<"czech", "Czech">>, <<"slovak", "Slovak">>,
       <<"ukrainian", "Ukrainian">>, <<"finnish", "Finnish">> >>

\* normalize_language_name(language_code)
NormalizeLanguageName(language_code) ==
    IF ~Truthy(language_code) THEN Ret(JStr(TableGet(CodeMap, Chars("en"), "Unknown")))
    ELSE IF language_code.t # "str" THEN Exc
    ELSE Ret(JStr(TableGet(CodeMap, Lower(language_code.s), "Unknown")))

\* ------------------------------------------------------------------------
\* transcribe_audio and transcribe_audio_only
\* ------------------------------------------------------------------------
\* response.text; the text is not interpreted
BodyText == Chars("<body>")

MsgNoAudio == Chars("No audio provided. Please upload or record audio first.")

MsgNoTranscriptionReturned ==
    Chars("No transcription returned. Please try again with a clearer recording.")

MsgTranscribedIn(language) == Chars("Transcribed in ") \o language \o Chars(".")

MsgTranscriptionFailed(code) ==
    Chars("Transcription failed: API returned status ") \o IntToChars(code)

MsgTranscriptionFailedWith(code) ==
    MsgTranscriptionFailed(code) \o Chars(", message: ") \o BodyText

\* str(v) inside an f-string, for the values a language dropdown can hold
PyStr(v) == IF v.t = "str" THEN v.s ELSE IF v.t = "null" THEN Chars("None") ELSE TextboxValue(v)

\* The outcome of one call: the pair returned, the line that returned it,
\* the audio file handles opened and closed, the HTTP requests sent and the
\* language code sent to Whisper (empty when none was).
TranscribeOutcome(first, second, site, opens, closes, requests, language) ==
    [first |-> first, second |-> second, site |-> site, opens |-> opens,
     closes |-> closes, requests |-> requests, language |-> language]

\* open(audio_path, 'rb') succeeds for the path of a file that exists
CanOpen(audio) == audio.path.t = "str" /\ audio.path.s # <<>> /\ audio.exists

\* data.get(key, default) on the decoded body; AttributeError when the body
\* is no dict
BodyGet(result, key, default) ==
    IF result.t = "obj" THEN Ret(DictGet(result, Chars(key), default)) ELSE Exc

\* a variant of the finally blocks that is skipped when the except clause ran
CloseFileUnlessRaised(o) ==
    [o EXCEPT !.closes = IF o.site \in {"440", "1092"} THEN 0 ELSE o.opens]

\* lines 441-446 and 1093-1098: the finally block closes files['file'];
\* when open failed, files is unbound and the NameError is swallowed
CloseFile(o) == [o EXCEPT !.closes = o.opens]

\* lines 438-440
TranscribeAudioExcept(opens, requests, language) ==
    TranscribeOutcome(JStr(Chars("Unknown")), JStr(MsgError), "440", opens, 0, requests, language)

\* lines 431-433
TranscribeAudioResult(text, normalized, language) ==
    IF text.raised \/ normalized.raised THEN TranscribeAudioExcept(1, 1, language)
    ELSE TranscribeOutcome(normalized.val, text.val, "433", 1, 0, 1, language)

\* lines 427-433, entered with the detected language
TranscribeAudioDetected(text, detected, language) ==
    TranscribeAudioResult(text,
        IF detected.raised THEN Exc ELSE NormalizeLanguageName(detected.val), language)

\* lines 414-436, entered with the open file and the language code sent
TranscribeAudioPost(reply, language) ==
    IF reply.kind = "raise" THEN TranscribeAudioExcept(1, 1, language)
    ELSE IF reply.code # 200
    THEN TranscribeOutcome(JStr(Chars("Unknown")), JStr(MsgTranscriptionFailedWith(reply.code)),
                           "436", 1, 0, 1, language)
    ELSE IF ~reply.decoded THEN TranscribeAudioExcept(1, 1, language)
    ELSE TranscribeAudioDetected(BodyGet(reply.body, "text", JStr(<<>>)),
                                 BodyGet(reply.body, "language", JStr(Chars("Unknown"))), language)

\* lines 407-436, entered with the open file
TranscribeAudioSend(iso, reply) ==
    IF iso.raised THEN TranscribeAudioExcept(1, 0, <<>>)
    ELSE TranscribeAudioPost(reply, iso.val.s)

\* lines 395-440: the try block and its except clause
TranscribeAudioTry(audio, auto_detect, expected_language, reply) ==
    IF ~CanOpen(audio) THEN TranscribeAudioExcept(0, 0, <<>>)
    ELSE IF auto_detect THEN TranscribeAudioPost(reply, <<>>)
    ELSE TranscribeAudioSend(GetIsoLanguageCode(expected_language), reply)

\* transcribe_audio(audio_path, auto_detect, expected_language, ...) when the
\* Whisper endpoint answers with reply
TranscribeAudio(audio, auto_detect, expected_language, reply) ==
    CloseFile(TranscribeAudioTry(audio, auto_detect, expected_language, reply))

\* lines 1090-1092
TranscribeOnlyExcept(opens, requests, language) ==
    TranscribeOutcome(JStr(<<>>), JStr(MsgError), "1092", opens, 0, requests, language)

\* lines 1079-1084; transcription.strip() raises AttributeError for a value
\* that is no text
TranscribeOnlyResult(text, patient_language, language) ==
    IF text.raised THEN TranscribeOnlyExcept(1, 1, language)
    ELSE IF ~Truthy(text.val)
    THEN TranscribeOutcome(JStr(<<>>), JStr(MsgNoTranscriptionReturned), "1082", 1, 0, 1, language)
    ELSE IF text.val.t # "str" THEN TranscribeOnlyExcept(1, 1, language)
    ELSE IF Strip(text.val.s) = <<>>
    THEN TranscribeOutcome(JStr(<<>>), JStr(MsgNoTranscriptionReturned), "1082", 1, 0, 1, language)
    ELSE TranscribeOutcome(text.val, JStr(MsgTranscribedIn(PyStr(patient_language))),
                           "1084", 1, 0, 1, language)

\* lines 1069-1088, entered with the open file
TranscribeOnlyPost(patient_language, reply, language) ==
    IF reply.kind = "raise" THEN TranscribeOnlyExcept(1, 1, language)
    ELSE IF reply.code # 200
    THEN TranscribeOutcome(JStr(<<>>), JStr(MsgTranscriptionFailed(reply.code)),
                           "1088", 1, 0, 1, language)
    ELSE IF ~reply.decoded THEN TranscribeOnlyExcept(1, 1, language)
    ELSE TranscribeOnlyResult(BodyGet(reply.body, "text", JStr(<<>>)), patient_language,
                              language)

\* lines 1056-1088, entered with the language code
TranscribeOnlyOpen(audio, iso, patient_language, reply) ==
    IF iso.raised \/ ~CanOpen(audio) THEN TranscribeOnlyExcept(0, 0, <<>>)
    ELSE TranscribeOnlyPost(patient_language, reply, iso.val.s)

\* lines 1054-1092: the try block and its except clause
TranscribeOnlyTry(audio, patient_language, reply) ==
    TranscribeOnlyOpen(audio, GetIsoLanguageCode(patient_language), patient_language, reply)

\* transcribe_audio_only(audio_mode, audio_file, audio_recorder,
\* patient_language, ...): audio is the path the mode selects (line 1049)
TranscribeAudioOnly(audio, patient_language, reply) ==
    IF ~Truthy(audio.path)
    THEN TranscribeOutcome(JStr(<<>>), JStr(MsgNoAudio), "1052", 0, 0, 0, <<>>)
    ELSE CloseFile(TranscribeOnlyTry(audio, patient_language, reply))

\* ------------------------------------------------------------------------
\* parse_medreason_response
\* ------------------------------------------------------------------------
ThinkingMarker == Chars("## Thinking")

ReasoningMarker == Chars("### Reasoning Process")

ConclusionMarker == Chars("### Conclusion")

RuleMarker == Chars("---")

\* s.split(sep)[0] for a text that contains sep
SplitFirst(s, sep) == SubSeq(s, 1, Find(s, sep, 1) - 1)

\* s.rfind(sub): 1-based index of the last occurrence, 0 when there is none
RFind(s, sub) ==
    LET occ == {i \in 1..(Len(s) + 1) : MatchAt(s, sub, i)}
    IN  IF occ = {} THEN 0 ELSE CHOOSE i \in occ : \A j \in occ : j <= i

\* lines 546-551, 556-561, 566-571: the text of a section, cut at the
\* terminator `first` when the section contains it, else at `second`
SectionBody(section, first, second) ==
    IF Contains(section, first) THEN Strip(SplitFirst(section, first))
    ELSE IF Contains(section, second) THEN Strip(SplitFirst(section, second))
    ELSE Strip(section)

\* lines 544-571: one narrative section of response_text
Section(text, marker, first, second) ==
    IF Contains(text, marker)
    THEN SectionBody(SplitSecond(text, marker), first, second)
    ELSE <<>>

\* a variant of lines 574-577 that takes the whole text when there is no
\* marker
FinalAnswerSectionWholeText(text) ==
    IF Contains(text, TriageMarker) THEN Strip(SplitSecond(text, TriageMarker))
    ELSE IF Contains(text, FinalMarker) THEN Strip(SplitSecond(text, FinalMarker))
    ELSE text

\* lines 574-577
FinalAnswerSection(text) ==
    IF Contains(text, TriageMarker) THEN Strip(SplitSecond(text, TriageMarker))
    ELSE IF Contains(text, FinalMarker) THEN Strip(SplitSecond(text, FinalMarker))
    ELSE <<>>

\* lines 587-592
FormattedOrKept(final, parsed) ==
    IF parsed.ok THEN JsonDumps(parsed.val) ELSE final

\* lines 581-592: the final answer with the text from its first '{' to its
\* last '}' pretty-printed when that text is JSON
FormatFinalAnswer(final) ==
    IF Contains(final, <<"{">>) /\ Contains(final, <<"}">>)
    THEN FormattedOrKept(final,
            JsonLoads(SubSeq(final, Find(final, <<"{">>, 1), RFind(final, <<"}">>))))
    ELSE final

\* the dict returned, or an exception
Sections(thinking, reasoning, conclusion, final_answer) ==
    [raised |-> FALSE, thinking |-> thinking, reasoning |-> reasoning,
     conclusion |-> conclusion, final_answer |-> final_answer]

SectionsRaised == [raised |-> TRUE, thinking |-> <<>>, reasoning |-> <<>>,
                   conclusion |-> <<>>, final_answer |-> <<>>]

\* lines 536-596 for a response_text that is a str
ParseSections(text) ==
    Sections(Section(text, ThinkingMarker, FinalMarker, TriageMarker),
             Section(text, ReasoningMarker, RuleMarker, ConclusionMarker),
             Section(text, ConclusionMarker, FinalMarker, TriageMarker),
             FormatFinalAnswer(FinalAnswerSection(text)))

SectionMarkers ==
    {ThinkingMarker, ReasoningMarker, ConclusionMarker, TriageMarker, FinalMarker}

\* lines 536-596 for any response_text: `marker in response_text` raises
\* TypeError for null, a number or a boolean, and response_text.split raises
\* AttributeError when a list or dict holds a marker
ParseSectionsAny(rawval) ==
    IF rawval.t = "str" THEN ParseSections(rawval.s)
    ELSE IF rawval.t \in {"arr", "obj"} /\ \A mk \in SectionMarkers : PyIn(mk, rawval) = "no"
    THEN Sections(<<>>, <<>>, <<>>, <<>>)
    ELSE SectionsRaised

\* lines 518-533 then 536-596, entered with the outcome of the former
ParseRaw(raw) == IF raw.raised THEN SectionsRaised ELSE ParseSectionsAny(raw.val)

\* parse_medreason_response(result)
ParseMedreasonResponse(result) == ParseRaw(RawResponse(result))

\* ------------------------------------------------------------------------
\* translate_text and translate_text_only
\* ------------------------------------------------------------------------
\* repr() of a str: single quotes, or double quotes when the text holds a
\* single quote and no double quote; backslash, the quote and control
\* characters are escaped
ReprQuote(s) == IF Contains(s, <<"'">>) /\ ~Contains(s, <<"\"">>) THEN "\"" ELSE "'"

ReprChar(c, quote) ==
    IF c = "\\" THEN <<"\\", "\\">>
    ELSE IF c = "\n" THEN <<"\\", "n">>
    ELSE IF c = "\t" THEN <<"\\", "t">>
    ELSE IF c = "\r" THEN <<"\\", "r">>
    ELSE IF c = quote THEN <<"\\", c>>
    ELSE <<c>>

RECURSIVE ReprChars(_, _, _)
ReprChars(s, i, quote) ==
    IF i > Len(s) THEN <<>> ELSE ReprChar(s[i], quote) \o ReprChars(s, i + 1, quote)

ReprQuoted(s, quote) == <<quote>> \o ReprChars(s, 1, quote) \o <<quote>>

ReprStr(s) == ReprQuoted(s, ReprQuote(s))

\* repr() of a decoded JSON value, which is str() of a dict or a list
RECURSIVE PyRepr(_)
RECURSIVE ReprMembers(_, _, _)
ReprMember(mem, keyed) ==
    IF keyed THEN ReprStr(mem.k) \o Chars(": ") \o PyRepr(mem.v) ELSE PyRepr(mem.v)

ReprMembers(m, i, keyed) ==
    IF i > Len(m) THEN <<>>
    ELSE IF i = Len(m) THEN ReprMember(m[i], keyed)
    ELSE ReprMember(m[i], keyed) \o Chars(", ") \o ReprMembers(m, i + 1, keyed)

PyRepr(v) ==
    IF v.t = "null" THEN Chars("None")
    ELSE IF v.t = "true" THEN Chars("True")
    ELSE IF v.t = "false" THEN Chars("False")
    ELSE IF v.t = "num" THEN IntToChars(v.n)
    ELSE IF v.t = "str" THEN ReprStr(v.s)
    ELSE IF v.t = "arr" THEN <<"[">> \o ReprMembers(v.m, 1, FALSE) \o <<"]">>
    ELSE <<"{">> \o ReprMembers(v.m, 1, TRUE) \o <<"}">>

\* str(v) inside an f-string
FormatValue(v) == IF v.t = "str" THEN v.s ELSE PyRepr(v)

TranslatedTextKey == Chars("translated_text")

MsgTranslationFailed(code) ==
    Chars("Translation failed: API returned status ") \o IntToChars(code)

\* The outcome of one call of translate_text: the value returned, the line
\* that returned it and the HTTP requests sent.
TranslateOutcome(val, site, requests) == [val |-> val, site |-> site, requests |-> requests]

\* lines 511-513
TranslateExcept == TranslateOutcome(JStr(MsgError), "513", 1)

\* lines 482-485 and 487-490, entered with result[key][0]
TranslateElement(first, siteText, siteElement) ==
    IF first.raised THEN TranslateExcept
    ELSE IF first.val.t = "obj" /\ HasKey(first.val, TranslatedTextKey)
    THEN TranslateOutcome(ValueOf(first.val, TranslatedTextKey), siteText, 1)
    ELSE TranslateOutcome(first.val, siteElement, 1)

\* result[key][0]
TranslateFirst(list) == IF list.raised THEN Exc ELSE PyFirst(list.val)

\* lines 482-485 and 487-490
TranslateKeyed(result, key, siteText, siteElement) ==
    TranslateElement(TranslateFirst(PyItem(result, key)), siteText, siteElement)

\* lines 493-500: the return of the loop over result.items(), site "none"
\* when the loop ends without one
RECURSIVE TranslateScan(_, _)
TranslateProbe(m, i, first) ==
    IF first.t = "str" THEN TranslateOutcome(first, "496", 1)
    ELSE IF first.t = "obj" /\ HasKey(first, TranslatedTextKey)
    THEN TranslateOutcome(ValueOf(first, TranslatedTextKey), "498", 1)
    ELSE IF first.t = "obj" /\ HasKey(first, Chars("translation"))
    THEN TranslateOutcome(ValueOf(first, Chars("translation")), "500", 1)
    ELSE TranslateScan(m, i + 1)

TranslateScan(m, i) ==
    IF i > Len(m) THEN TranslateOutcome(JNull, "none", 1)
    ELSE IF m[i].v.t = "arr" /\ m[i].v.m # <<>> THEN TranslateProbe(m, i, m[i].v.m[1].v)
    ELSE TranslateScan(m, i + 1)

\* a variant of lines 502-506 that looks for the top-level translated_text
\* before the list-valued fields
TranslateFallbackTopFirst(result, scanned) ==
    IF HasKey(result, TranslatedTextKey)
    THEN TranslateOutcome(ValueOf(result, TranslatedTextKey), "504", 1)
    ELSE IF scanned.site # "none" THEN scanned
    ELSE TranslateOutcome(JStr(PyRepr(result)), "506", 1)

\* lines 493-506, entered with the outcome of the loop
TranslateFallback(result, scanned) ==
    IF scanned.site # "none" THEN scanned
    ELSE IF HasKey(result, TranslatedTextKey)
    THEN TranslateOutcome(ValueOf(result, TranslatedTextKey), "504", 1)
    ELSE TranslateOutcome(JStr(PyRepr(result)), "506", 1)

\* lines 481-506, entered with the two membership tests; result.items()
\* raises AttributeError when result is no dict
TranslateShapes(result, hasPredictions, hasOutputs) ==
    IF hasPredictions = "raise" THEN TranslateExcept
    ELSE IF hasPredictions = "yes"
    THEN TranslateKeyed(result, Chars("predictions"), "483", "485")
    ELSE IF hasOutputs = "yes" THEN TranslateKeyed(result, Chars("outputs"), "488", "490")
    ELSE IF result.t # "obj" THEN TranslateExcept
    ELSE TranslateFallback(result, TranslateScan(result.m, 1))

\* lines 477-506
TranslateUnwrap(result) ==
    TranslateShapes(result, PyIn(Chars("predictions"), result), PyIn(Chars("outputs"), result))

\* a variant that sends the request a second time when the first one fails
TranslateTextRetry(text, source_lang, target_lang, reply) ==
    IF reply.kind = "raise" THEN TranslateOutcome(JStr(MsgError), "513", 2)
    ELSE IF reply.code # 200
    THEN TranslateOutcome(JStr(MsgTranslationFailed(reply.code)), "509", 2)
    ELSE IF ~reply.decoded THEN TranslateExcept
    ELSE TranslateUnwrap(reply.body)

\* translate_text(text, source_lang, target_lang, ...) when the NLLB
\* endpoint answers with reply; the three arguments only fill the payload
TranslateText(text, source_lang, target_lang, reply) ==
    IF reply.kind = "raise" THEN TranslateExcept
    ELSE IF reply.code # 200
    THEN TranslateOutcome(JStr(MsgTranslationFailed(reply.code)), "509", 1)
    ELSE IF ~reply.decoded THEN TranslateExcept
    ELSE TranslateUnwrap(reply.body)

MsgNoText == Chars("No text to translate. Please transcribe audio first.")

MsgTranslationSkipped(language) ==
    Chars("Translation skipped (both languages are ") \o language \o Chars(").")

MsgTranslated(patient_language, doctor_language) ==
    Chars("Translated from ") \o patient_language \o Chars(" to ")
        \o doctor_language \o Chars(".")

\* The outcome of one call of translate_text_only: the pair returned, the
\* line that returned it and the HTTP requests sent.
TranslateOnlyOutcome(first, second, site, requests) ==
    [first |-> first, second |-> second, site |-> site, requests |-> requests]

\* lines 1118-1126
TranslateOnlySend(translated, patient_language, doctor_language) ==
    TranslateOnlyOutcome(translated.val,
        MsgTranslated(PyStr(patient_language), PyStr(doctor_language)), "1126",
        translated.requests)

\* a variant of lines 1108-1109 that compares the names as they are
TranslateOnlyTryExact(transcription, patient_language, doctor_language, reply) ==
    IF doctor_language.t # "str" \/ patient_language.t # "str"
    THEN TranslateOnlyOutcome(JStr(<<>>), MsgError, "1130", 0)
    ELSE IF doctor_language.s = patient_language.s
    THEN TranslateOnlyOutcome(JStr(transcription),
            MsgTranslationSkipped(patient_language.s), "1109", 0)
    ELSE TranslateOnlySend(
            TranslateText(transcription, GetLanguageCode(patient_language).val,
                          GetLanguageCode(doctor_language).val, reply),
            patient_language, doctor_language)

\* lines 1106-1130: .lower() raises AttributeError for a language that is
\* no text
TranslateOnlyTry(transcription, patient_language, doctor_language, reply) ==
    IF doctor_language.t # "str" \/ patient_language.t # "str"
    THEN TranslateOnlyOutcome(JStr(<<>>), MsgError, "1130", 0)
    ELSE IF Lower(doctor_language.s) = Lower(patient_language.s)
    THEN TranslateOnlyOutcome(JStr(transcription),
            MsgTranslationSkipped(patient_language.s), "1109", 0)
    ELSE TranslateOnlySend(
            TranslateText(transcription, GetLanguageCode(patient_language).val,
                          GetLanguageCode(doctor_language).val, reply),
            patient_language, doctor_language)

\* a variant without the guard of lines 1103-1104
TranslateTextOnlyNoGuard(transcription, patient_language, doctor_language, reply) ==
    TranslateOnlyTry(transcription, patient_language, doctor_language, reply)

\* translate_text_only(transcription, patient_language, doctor_language, ...)
\* for the text of the Transcription box
TranslateTextOnly(transcription, patient_language, doctor_language, reply) ==
    IF Strip(transcription) = <<>>
    THEN TranslateOnlyOutcome(JStr(<<>>), MsgNoText, "1104", 0)
    ELSE TranslateOnlyTry(transcription, patient_language, doctor_language, reply)

\* ------------------------------------------------------------------------
\* transcribe_doctor_notes
\* ------------------------------------------------------------------------
MsgFailedToTranscribe ==
    Chars("Failed to transcribe audio. Please try again with a clearer recording.")

MsgTranscriptionComplete == Chars("Transcription complete.")

\* lines 1219-1226, entered with the outcome of transcribe_audio, whose
\* second value is the transcription; .strip() raises AttributeError for a
\* transcription that is no text
DoctorNotesResult(o) ==
    IF ~Truthy(o.second)
    THEN [o EXCEPT !.first = JStr(<<>>), !.second = JStr(MsgFailedToTranscribe), !.site = "1220"]
    ELSE IF o.second.t # "str"
    THEN [o EXCEPT !.first = JStr(<<>>), !.second = JStr(MsgError), !.site = "1226"]
    ELSE IF Strip(o.second.s) = <<>>
    THEN [o EXCEPT !.first = JStr(<<>>), !.second = JStr(MsgFailedToTranscribe), !.site = "1220"]
    ELSE [o EXCEPT !.first = o.second, !.second = JStr(MsgTranscriptionComplete), !.site = "1222"]

\* transcribe_doctor_notes(audio_mode, audio_file, audio_recorder, ...):
\* audio is the path the mode selects (line 1209)
TranscribeDoctorNotes(audio, reply) ==
    IF ~Truthy(audio.path)
    THEN TranscribeOutcome(JStr(<<>>), JStr(MsgNoAudio), "1212", 0, 0, 0, <<>>)
    ELSE DoctorNotesResult(TranscribeAudio(audio, FALSE, JStr(Chars("English")), reply))

\* ------------------------------------------------------------------------
\* check_model, check_medgemma_model and check_all_services
\* ------------------------------------------------------------------------
\* the characters U+2705 and U+274C
CheckMark == <<"U+2705">>

CrossMark == <<"U+274C">>

\* model_type.capitalize()
Capitalize(s) == IF s = <<>> THEN <<>> ELSE <<UpperChar(s[1])>> \o Lower(SubSeq(s, 2, Len(s)))

MsgAvailable(name) == name \o Chars(" API is available and responding")

MsgAvailable400(name) == name \o Chars(" API is available (expected 400 error for test)")

MsgReturnedStatus(name, code) ==
    name \o Chars(" API returned status code: ") \o IntToChars(code)

MsgApiError(name) == name \o Chars(" API error: ") \o ExcText

\* The outcome of one probe: the pair returned, whether an exception left
\* the function, and the HTTP requests sent.
Probe(ok, msg, raised, requests) ==
    [ok |-> ok, msg |-> msg, raised |-> raised, requests |-> requests]

\* check_medgemma_model(url, token) when the endpoint answers with reply
CheckMedgemmaModel(reply) ==
    IF reply.kind = "raise" THEN Probe(FALSE, MsgApiError(Chars("MedGemma")), FALSE, 1)
    ELSE IF reply.code = 200 THEN Probe(TRUE, MsgAvailable(Chars("MedGemma")), FALSE, 1)
    ELSE Probe(FALSE, MsgReturnedStatus(Chars("MedGemma"), reply.code), FALSE, 1)

\* a variant of lines 93-98 that takes status 400 for a sign of life from
\* every backend
CheckStatusAny400(model_type, code) ==
    IF code = 400
    THEN Probe(TRUE, MsgAvailable400(Capitalize(model_type)), FALSE, 1)
    ELSE IF code = 200 THEN Probe(TRUE, MsgAvailable(Capitalize(model_type)), FALSE, 1)
    ELSE Probe(FALSE, MsgReturnedStatus(Capitalize(model_type), code), FALSE, 1)

\* lines 93-98
CheckStatus(model_type, code) ==
    IF model_type = Chars("whisper") /\ code = 400
    THEN Probe(TRUE, MsgAvailable400(Capitalize(model_type)), FALSE, 1)
    ELSE IF code = 200 THEN Probe(TRUE, MsgAvailable(Capitalize(model_type)), FALSE, 1)
    ELSE Probe(FALSE, MsgReturnedStatus(Capitalize(model_type), code), FALSE, 1)

\* a variant without the except clause of lines 100-101
CheckModelNoExcept(model_type, reply) ==
    IF model_type = Chars("medgemma") THEN CheckMedgemmaModel(reply)
    ELSE IF model_type \notin {Chars("medreason"), Chars("whisper"), Chars("nllb")}
    THEN Probe(FALSE, <<>>, TRUE, 0)
    ELSE IF reply.kind = "raise" THEN Probe(FALSE, <<>>, TRUE, 1)
    ELSE CheckStatus(model_type, reply.code)

\* check_model(model_type, url, token) when the endpoint answers with
\* reply; for a model type without a payload, json.dumps(payload) raises
\* UnboundLocalError before a request is sent
CheckModel(model_type, reply) ==
    IF model_type = Chars("medgemma") THEN CheckMedgemmaModel(reply)
    ELSE IF model_type \notin {Chars("medreason"), Chars("whisper"), Chars("nllb")}
    THEN Probe(FALSE, MsgApiError(Capitalize(model_type)), FALSE, 0)
    ELSE IF reply.kind = "raise"
    THEN Probe(FALSE, MsgApiError(Capitalize(model_type)), FALSE, 1)
    ELSE CheckStatus(model_type, reply.code)

\* the four backends in the order of lines 995-998, with the labels of
\* lines 1002-1005
Backends ==
    << [model_type |-> Chars("medreason"), label |-> Chars("MedReason LLM")],
       [model_type |-> Chars("whisper"),   label |-> Chars("Whisper STT")],
       [model_type |-> Chars("nllb"),      label |-> Chars("NLLB Translator")],
       [model_type |-> Chars("medgemma"),  label |-> Chars("MedGemma Multimodal")] >>

\* lines 1001-1005: one line of the report
StatusLine(label, probe) ==
    (IF probe.ok THEN CheckMark ELSE CrossMark) \o <<" ">> \o label \o Chars(": ") \o probe.msg

\* "\n\n".join(results)
RECURSIVE JoinLines(_, _)
JoinLines(lines, i) ==
    IF i > Len(lines) THEN <<>>
    ELSE IF i = Len(lines) THEN lines[i]
    ELSE lines[i] \o Chars("\n\n") \o JoinLines(lines, i + 1)

\* The outcome of check_all_services: the report returned, its lines, the
\* probes made, the model types that were sent a request, in order, and
\* whether an exception left the function.
CheckOutcome(text, lines, probes, requests, raised) ==
    [text |-> text, lines |-> lines, probes |-> probes, requests |-> requests,
     raised |-> raised]

\* lines 995-998: the probes in order; a probe that raises ends the calls
RECURSIVE Probes(_, _)
ProbesAfter(replies, i, probe) ==
    IF probe.raised THEN <<probe>> ELSE <<probe>> \o Probes(replies, i + 1)

Probes(replies, i) ==
    IF i > Len(Backends) THEN <<>>
    ELSE ProbesAfter(replies, i, CheckModel(Backends[i].model_type, replies[i]))

\* the model types the probes sent a request to
RECURSIVE ProbeRequests(_, _)
ProbeRequests(probes, i) ==
    IF i > Len(probes) THEN <<>>
    ELSE (IF probes[i].requests = 1 THEN <<Backends[i].model_type>> ELSE <<>>)
            \o ProbeRequests(probes, i + 1)

\* lines 1001-1007, entered with the four probes
CheckReport(probes, lines) ==
    CheckOutcome(JoinLines(lines, 1), lines, probes, ProbeRequests(probes, 1), FALSE)

\* lines 992-1007, entered with the probes made
CheckProbed(probes) ==
    IF probes[Len(probes)].raised
    THEN CheckOutcome(<<>>, <<>>, probes, ProbeRequests(probes, 1), TRUE)
    ELSE CheckReport(probes, [i \in 1..Len(probes) |-> StatusLine(Backends[i].label, probes[i])])

\* check_all_services(...) when the four endpoints answer with replies
CheckAllServices(replies) == CheckProbed(Probes(replies, 1))

\* ------------------------------------------------------------------------
\* analyze_xray_with_medgemma and analyze_xray_image
\* ------------------------------------------------------------------------
MsgNoImage == Chars("No image uploaded. Please upload an X-ray image first.")

MsgUnexpectedFormat(result) == Chars("Unexpected response format: ") \o FormatValue(result)

MsgMedgemmaStatus(code) ==
    Chars("Error: MedGemma API returned status code ") \o IntToChars(code)
        \o Chars(". Response: ") \o BodyText

\* The outcome of one call: the pair returned (status, analysis), the line
\* of analyze_xray_with_medgemma or analyze_xray_image that made it, the
\* image file handles opened and closed and the HTTP requests sent.
XrayOutcome(status, analysis, site, opens, closes, requests) ==
    [status |-> status, analysis |-> analysis, site |-> site, opens |-> opens,
     closes |-> closes, requests |-> requests]

\* lines 214-216 after the image was read: encode_image_to_base64 closed
\* the file when its with block ended
XrayExcept == XrayOutcome(MsgAnalysisComplete, JStr(MsgError), "216", 1, 1, 1)

\* line 206, entered with result['choices'][0]
XrayContent(c0) ==
    IF c0.raised THEN Exc
    ELSE IF PyItem(c0.val, Chars("message")).raised THEN Exc
    ELSE PyItem(PyItem(c0.val, Chars("message")).val, Chars("content"))

\* lines 206-207
XrayAnalysis(content) ==
    IF content.raised THEN XrayExcept
    ELSE XrayOutcome(MsgAnalysisComplete, content.val, "207", 1, 1, 1)

\* lines 205-209, entered with the test `'choices' in result` and the
\* value of result['choices']
XrayChoices(result, hasChoices, choices) ==
    IF hasChoices = "raise" THEN XrayExcept
    ELSE IF hasChoices = "no"
    THEN XrayOutcome(MsgAnalysisComplete, JStr(MsgUnexpectedFormat(result)), "209", 1, 1, 1)
    ELSE IF choices.raised THEN XrayExcept
    ELSE IF PyNonEmpty(choices.val) = "raise" THEN XrayExcept
    ELSE IF PyNonEmpty(choices.val) = "no"
    THEN XrayOutcome(MsgAnalysisComplete, JStr(MsgUnexpectedFormat(result)), "209", 1, 1, 1)
    ELSE XrayAnalysis(XrayContent(PyFirst(choices.val)))

\* analyze_xray_with_medgemma(image_path, ...) as called on line 1031, when
\* the MedGemma endpoint answers with reply; open() raises for a file that
\* is gone
AnalyzeXrayWithMedgemma(image, reply) ==
    IF ~CanOpen(image) THEN XrayOutcome(MsgAnalysisComplete, JStr(MsgError), "216", 0, 0, 0)
    ELSE IF reply.kind = "raise" THEN XrayExcept
    ELSE IF reply.code # 200
    THEN XrayOutcome(MsgAnalysisComplete, JStr(MsgMedgemmaStatus(reply.code)), "212", 1, 1, 1)
    ELSE IF ~reply.decoded THEN XrayExcept
    ELSE XrayChoices(reply.body, PyIn(Chars("choices"), reply.body),
                     PyItem(reply.body, Chars("choices")))

\* analyze_xray_image(image_path, ...)
AnalyzeXrayImage(image, reply) ==
    IF ~Truthy(image.path) THEN XrayOutcome(MsgNoImage, JStr(<<>>), "1027", 0, 0, 0)
    ELSE AnalyzeXrayWithMedgemma(image, reply)

\* ------------------------------------------------------------------------
\* Inputs
\* ------------------------------------------------------------------------
Str(text) == JStr(Chars(text))

Pair(key, val) == Member(Chars(key), val)

\* the text the reasoning model returns: prose, an optional marker, a body
\* and trailing prose
AnswerPrefixes == {"", "## Thinking\nRule out {x}.\n"}

AnswerMarkers == {"", "## Triage Summary\n", "## Final Answer\n"}

AnswerBodies ==
    { "",
      "{}",
      "{\"severity\":\"Mild\"}",
      "{\"patient_name\":\"Jane Doe\",\"vitals\":{\"bp\":\"120\"}}",
      "{\"follow_up\":\"see } note\"}",
      "{\"follow_up\":\"see { note\"}",
      "{\"severity\":Mild}",
      "{\"severity\":\"Mild\",}",
      "{\"vitals\":{\"bp\":\"120\"}",
      "no object }" }

AnswerSuffixes ==
    { "",
      "\nEnd of summary.",
      "\nNote: } closes the record.",
      "\nSee {appendix}.",
      "\n} and {",
      "\n## Triage Summary\n{\"severity\":\"Severe\"}" }

Answers ==
    { Chars(a) \o Chars(m) \o Chars(b) \o Chars(z) :
        a \in AnswerPrefixes, m \in AnswerMarkers, b \in AnswerBodies, z \in AnswerSuffixes }

HttpReply(code, decoded, body) ==
    [kind |-> "http", code |-> code, decoded |-> decoded, body |-> body]

RaiseReply == [kind |-> "raise", code |-> 0, decoded |-> FALSE, body |-> JNull]

\* the shapes of a 200 response that lines 1305-1317 look for, around one
\* answer text
Shapes(text) ==
    { JObj(<<Pair("choices", JArr(<<Member(<<>>, JObj(<<Pair("text", JStr(text))>>))>>))>>),
      JObj(<<Pair("choices", JArr(<<Member(<<>>,
              JObj(<<Pair("message", JObj(<<Pair("content", JStr(text))>>))>>))>>))>>),
      JObj(<<Pair("response", JStr(text))>>),
      JObj(<<Pair("generations", JArr(<<Member(<<>>, JObj(<<Pair("text", JStr(text))>>))>>))>>) }

\* responses of other shapes: the answer is missing, null, a number, or the
\* body is not an object
OddBodies ==
    { JObj(<<>>),
      JObj(<<Pair("detail", Str("model loading"))>>),
      JObj(<<Pair("choices", JArr(<<>>)), Pair("response", Str("{\"severity\":\"Mild\"}"))>>),
      JObj(<<Pair("choices", JArr(<<Member(<<>>, JObj(<<Pair("index", JNum(0))>>))>>))>>),
      JObj(<<Pair("choices", JArr(<<Member(<<>>, JObj(<<Pair("text", JNull)>>))>>))>>),
      JObj(<<Pair("choices", JArr(<<Member(<<>>, JObj(<<Pair("message", Str("hello"))>>))>>))>>),
      JObj(<<Pair("choices", JNum(1))>>),
      JObj(<<Pair("response", JNum(42))>>),
      JObj(<<Pair("generations", JArr(<<>>))>>),
      JArr(<<>>),
      JNull }

ShapedAnswer == Chars("## Triage Summary\n{\"severity\":\"Mild\"}\nNote: } closes the record.")

Replies ==
    { HttpReply(200, TRUE,
        JObj(<<Pair("choices", JArr(<<Member(<<>>, JObj(<<Pair("text", JStr(a))>>))>>))>>)) :
        a \in Answers }
    \cup { HttpReply(200, TRUE, b) : b \in Shapes(ShapedAnswer) \cup OddBodies }
    \cup { HttpReply(200, FALSE, JNull), HttpReply(500, TRUE, JObj(<<>>)),
           HttpReply(404, FALSE, JNull), RaiseReply }

NotesText == Chars("Jane Doe, 47, chest pain since morning.")

BlankTranscriptions == {<<>>, Chars("  \n")}

\* texts a user may type into the Summary box
FullRecord ==
    JObj(<< Pair("patient_name", Str("Jane Doe")),
            Pair("date_of_birth", Str("1978-01-10")),
            Pair("visit_time", Str("2025-04-23 14:30:00")),
            Pair("severity", Str("Moderate")),
            Pair("primary_diagnosis", Str("Angina")),
            Pair("secondary_diagnoses", Str("None")),
            Pair("recommended_tests", Str("ECG")),
            Pair("recommended_treatment", Str("Rest")),
            Pair("follow_up", Str("1 week")),
            Pair("medical_reasoning", Str("Typical presentation")) >>)

EditedSummaries == {<<>>, JsonDumps(FullRecord), Chars("[1]"), InvalidJsonFormat}

\* payloads handed to save_diagnosis_to_db: every combination of a
\* date_of_birth, a visit_time and a set of text fields
DobValues ==
    { Str(x) : x \in { "1978-01-10", "1978-1-5", "N/A", "", "1978/01/10", "2023-02-30",
                        "2024-02-29", "1978-01- 5", "0000-01-01", "1978-13-01",
                        "1978-01-10 ", "10.01.1978" } }
    \cup { JNull, JNum(19780110), JNum(0), JTrue, JArr(<<Member(<<>>, Str("1978-01-10"))>>) }

VisitValues ==
    { Str(x) : x \in { "2025-04-23T14:30:00", "2025-04-23 14:30:00", "2025-04-23",
                        "2025-4-23 9:5:1", "2025-04-23  14:30:00", "2025-04-23 ",
                        " 2025-04-23", "2025-4-23", "N/A", "", "2025-04-23T14:30",
                        "2025-04-23 14:30:60", "2025-04-23 24:00:00", "Tomorrow",
                        "2025-04-23T", "2025-02-30", "23-04-2025 ", "2025-04-23t14:30:00" } }
    \cup { JNull, JNum(1745418600), JFalse,
           JArr(<<Member(<<>>, Str("T"))>>), JObj(<<Pair("T", JNum(1))>>) }

TextFieldSets ==
    { <<>>,
      << Pair("patient_name", Str("Jane Doe")), Pair("severity", Str("Moderate")) >>,
      << Pair("patient_name", Str("Jane Doe")), Pair("severity", Str("Moderate")),
         Pair("primary_diagnosis", Str("Angina")), Pair("secondary_diagnoses", Str("None")),
         Pair("recommended_tests", Str("ECG")), Pair("recommended_treatment", Str("Rest")),
         Pair("follow_up", Str("1 week")), Pair("medical_reasoning", Str("Typical")) >>,
      << Pair("patient_name", Str("Jane Doe")), Pair("severity", JNull),
         Pair("recommended_tests", JArr(<<Member(<<>>, Str("ECG"))>>)),
         Pair("follow_up", JNum(7)) >> }

Records ==
    { JObj(t \o d \o v) :
        t \in TextFieldSets,
        d \in {<<>>} \cup { <<Pair("date_of_birth", x)>> : x \in DobValues },
        v \in {<<>>} \cup { <<Pair("visit_time", x)>> : x \in VisitValues } }

\* texts that are no JSON object
OtherArguments ==
    { <<>>, NoJsonFound, InvalidJsonFormat, NoValidJsonFound, MsgError,
      MsgStatusCode(500), Chars("[1]"), Chars("null"), Chars("\"text\""), Chars("7"),
      Chars("{\"severity\": \"Mild\""), Chars(" {\"severity\":\"Mild\"} ") }

Arguments == { JsonDumps(r) : r \in Records } \cup OtherArguments

\* response texts for parse_medreason_response: the sections of the prompt
\* of lines 1245-1283 present or absent, with their terminators in both
\* orders and markers that occur twice
ThinkingParts == {"", "## Thinking\nRule out angina.\n"}

ReasoningParts ==
    { "",
      "### Reasoning Process\nPain on exertion.\n",
      "### Reasoning Process\nPain on exertion.\n---\n",
      "### Reasoning Process\nFirst --- then.\n" }

ConclusionParts == {"", "### Conclusion\nLikely angina.\n"}

FinalParts ==
    { "",
      "Closing words.",
      "## Final Answer\nAngina.",
      "## Triage Summary\n{\"severity\":\"Mild\"}",
      "## Triage Summary\nMild.\n## Final Answer\nAngina.",
      "## Final Answer\nAngina.\n## Triage Summary\nMild.",
      "## Triage Summary\nDraft.\n## Triage Summary\n{\"severity\":\"Severe\"}",
      "## Final Answer\n{\"severity\":\"Mild\"}\nNote: } closes the record.",
      "## Final Answer\n} before {" }

OrderedTexts ==
    { Chars(t) \o Chars(r) \o Chars(c) \o Chars(f) :
        t \in ThinkingParts, r \in ReasoningParts, c \in ConclusionParts, f \in FinalParts }

OtherTexts ==
    { Chars(x) : x \in
        { "### Conclusion\nEarly.\n### Reasoning Process\nLate.\n---\nAfter the rule.",
          "### Reasoning Process\nBody.\n### Conclusion\nDone.\n---\n## Final Answer\nAngina.",
          "## Thinking\nFirst.\n## Thinking\nSecond.\n## Final Answer\nAngina.",
          "## Triage Summary\n## Thinking\nLate thoughts.",
          "## thinking\nlower case.\n## final answer\nnone",
          "#### Conclusion\nDeeper heading.",
          "  \n",
          "{\"severity\":\"Mild\"}" } }

ParseTexts == OrderedTexts \cup OtherTexts

ParseInputs ==
    { JObj(<<Pair("choices", JArr(<<Member(<<>>, JObj(<<Pair("text", JStr(a))>>))>>))>>) :
        a \in ParseTexts }
    \cup Shapes(ShapedAnswer) \cup OddBodies

\* language names and codes handed to the lookups: the eight names of the
\* dropdowns of lines 847-860 and their ISO codes in several spellings, texts
\* that name no supported language, and values that are no text
CanonicalSpellings ==
    { Chars(IsoLanguageMap[i][1]) : i \in 1..8 } \cup { Chars(IsoLanguageMap[i][2]) : i \in 1..8 }

LanguageSpellings ==
    CanonicalSpellings
    \cup { Lower(c) : c \in CanonicalSpellings }
    \cup { Upper(c) : c \in CanonicalSpellings }
    \cup { <<c[1]>> \o Upper(Tail(c)) : c \in CanonicalSpellings }

OtherLanguageTexts ==
    { Chars(x) : x \in { "", "French", "fr", " German", "German ", "Deutsch", "en-US",
                          "Unknown", "auto", "englisch", "ger", "English, German" } }

OtherLanguageValues ==
    { JNull, JNum(0), JNum(5), JTrue, JFalse, JArr(<<>>),
      JArr(<<Member(<<>>, Str("German"))>>), JObj(<<Pair("German", Str("de"))>>) }

LanguageValues ==
    { JStr(x) : x \in LanguageSpellings \cup OtherLanguageTexts } \cup OtherLanguageValues

\* the audio of a call: no path, an empty path, the path of a recording and
\* the path of a file that is gone
AudioInputs ==
    { [path |-> JNull, exists |-> FALSE], [path |-> JStr(<<>>), exists |-> FALSE],
      [path |-> Str("/tmp/visit.wav"), exists |-> TRUE],
      [path |-> Str("/tmp/gone.wav"), exists |-> FALSE] }

\* the language of a dropdown
DropdownLanguages == {Str("English"), Str("German"), Str("german"), Str("Klingon"), JNull}

\* what the Whisper endpoint answers
WhisperBodies ==
    { JObj(<<Pair("text", Str("Chest pain since morning.")), Pair("language", Str("en"))>>),
      JObj(<<Pair("text", Str("Brustschmerzen.")), Pair("language", Str("German"))>>),
      JObj(<<Pair("text", Str("Qapla'")), Pair("language", Str("klingon"))>>),
      JObj(<<Pair("text", Str("Chest pain since morning."))>>),
      JObj(<<Pair("text", Str("Chest pain.")), Pair("language", JNull)>>),
      JObj(<<Pair("text", Str("Chest pain.")), Pair("language", JNum(5))>>),
      JObj(<<Pair("text", JStr(<<>>)), Pair("language", Str("en"))>>),
      JObj(<<Pair("text", Str("  \n")), Pair("language", Str("en"))>>),
      JObj(<<Pair("text", JNull)>>),
      JObj(<<Pair("text", JNum(5))>>),
      JObj(<<Pair("language", Str("pl"))>>),
      JObj(<<>>),
      JArr(<<>>),
      JNull }

WhisperReplies ==
    { HttpReply(200, TRUE, b) : b \in WhisperBodies }
    \cup { HttpReply(200, FALSE, JNull), HttpReply(400, TRUE, JObj(<<>>)),
           HttpReply(503, FALSE, JNull), RaiseReply }

\* what the NLLB endpoint answers: the wrappers of lines 481-504 alone and
\* together, in both orders, with elements of every kind, and bodies that
\* are no wrapper at all
NllbBodies ==
    { JObj(<<Pair("predictions", JArr(<<Member(<<>>, JObj(<<Pair("translated_text", Str("Chest pain."))>>))>>))>>),
      JObj(<<Pair("predictions", JArr(<<Member(<<>>, Str("Chest pain."))>>))>>),
      JObj(<<Pair("predictions", JArr(<<Member(<<>>, JObj(<<Pair("translation", Str("Chest pain."))>>))>>))>>),
      JObj(<<Pair("predictions", JArr(<<>>))>>),
      JObj(<<Pair("predictions", Str("Chest pain."))>>),
      JObj(<<Pair("predictions", JNull)>>),
      JObj(<<Pair("predictions", JArr(<<Member(<<>>, JNum(7))>>)),
             Pair("outputs", JArr(<<Member(<<>>, Str("Chest pain."))>>))>>),
      JObj(<<Pair("outputs", JArr(<<Member(<<>>, Str("Chest pain."))>>)),
             Pair("predictions", JArr(<<Member(<<>>, Str("Pain in the chest."))>>))>>),
      JObj(<<Pair("outputs", JArr(<<Member(<<>>, JObj(<<Pair("translated_text", Str("Chest pain."))>>))>>))>>),
      JObj(<<Pair("outputs", JArr(<<Member(<<>>, Str("Chest pain."))>>))>>),
      JObj(<<Pair("outputs", JArr(<<>>))>>),
      JObj(<<Pair("outputs", JObj(<<Pair("translated_text", Str("Chest pain."))>>))>>),
      JObj(<<Pair("outputs", JArr(<<Member(<<>>, Str("Chest pain."))>>)),
             Pair("translated_text", Str("Pain in the chest."))>>),
      JObj(<<Pair("result", JArr(<<Member(<<>>, Str("Chest pain."))>>))>>),
      JObj(<<Pair("data", JArr(<<Member(<<>>, JObj(<<Pair("translated_text", Str("Chest pain."))>>))>>))>>),
      JObj(<<Pair("data", JArr(<<Member(<<>>, JObj(<<Pair("translation", Str("Chest pain."))>>))>>))>>),
      JObj(<<Pair("data", JArr(<<Member(<<>>, JObj(<<Pair("translation", Str("Pain in the chest.")),
                                                    Pair("translated_text", Str("Chest pain."))>>))>>))>>),
      JObj(<<Pair("meta", JArr(<<>>)), Pair("model", Str("nllb")),
             Pair("scores", JArr(<<Member(<<>>, JNum(5))>>)),
             Pair("details", JArr(<<Member(<<>>, JObj(<<Pair("text", Str("x"))>>))>>)),
             Pair("translations", JArr(<<Member(<<>>, Str("Chest pain."))>>)),
             Pair("alternatives", JArr(<<Member(<<>>, Str("Pain in the chest."))>>))>>),
      JObj(<<Pair("translated_text", Str("Chest pain."))>>),
      JObj(<<Pair("translated_text", Str("Chest pain.")),
             Pair("data", JArr(<<Member(<<>>, Str("Pain in the chest."))>>))>>),
      JObj(<<Pair("data", JArr(<<Member(<<>>, JNum(1))>>)),
             Pair("translated_text", Str("Chest pain."))>>),
      JObj(<<Pair("translated_text", JNull)>>),
      JObj(<<Pair("translation", Str("Chest pain."))>>),
      JObj(<<Pair("detail", Str("it's loading"))>>),
      JObj(<<Pair("detail", Str("say \"it's\" loading\n"))>>),
      JObj(<<Pair("n", JNum(5)), Pair("ok", JTrue), Pair("off", JFalse), Pair("none", JNull),
             Pair("list", JArr(<<Member(<<>>, JNum(-1)), Member(<<>>, Str("a"))>>)),
             Pair("nested", JObj(<<Pair("path", Str("C:\\tmp"))>>))>>),
      JObj(<<>>),
      JArr(<<>>),
      JArr(<<Member(<<>>, Str("predictions"))>>),
      JArr(<<Member(<<>>, Str("Chest pain."))>>),
      Str("predictions are not ready"),
      Str("our outputs"),
      Str("Chest pain."),
      JNum(5),
      JNull }

NllbReplies ==
    { HttpReply(200, TRUE, b) : b \in NllbBodies }
    \cup { HttpReply(200, FALSE, JNull), HttpReply(500, TRUE, JObj(<<>>)),
           HttpReply(404, FALSE, JNull), RaiseReply }

\* the text of the Transcription box of the patient tab
PatientText == Chars("Bolest na hrudi od rana.")

TranslateTexts == {PatientText} \cup BlankTranscriptions

\* what a health probe is answered
ProbeReplies ==
    { HttpReply(200, TRUE, JObj(<<>>)), HttpReply(400, TRUE, JObj(<<>>)),
      HttpReply(503, FALSE, JNull), RaiseReply }

\* what the MedGemma endpoint answers to an analysis request
MedgemmaBodies ==
    { JObj(<<Pair("choices", JArr(<<Member(<<>>,
              JObj(<<Pair("message", JObj(<<Pair("content", Str("No acute findings."))>>))>>))>>))>>),
      JObj(<<Pair("choices", JArr(<<Member(<<>>,
              JObj(<<Pair("message", JObj(<<Pair("content", JNull)>>))>>))>>))>>),
      JObj(<<Pair("choices", JArr(<<Member(<<>>, JObj(<<Pair("text", Str("No acute findings."))>>))>>))>>),
      JObj(<<Pair("choices", JArr(<<Member(<<>>,
              JObj(<<Pair("message", Str("No acute findings."))>>))>>))>>),
      JObj(<<Pair("choices", JArr(<<>>))>>),
      JObj(<<Pair("choices", Str("No acute findings."))>>),
      JObj(<<Pair("choices", JNum(1))>>),
      JObj(<<Pair("choices", JObj(<<>>))>>),
      JObj(<<Pair("error", Str("model isn't loaded"))>>),
      JObj(<<>>),
      JArr(<<Member(<<>>, Str("choices"))>>),
      JArr(<<>>),
      Str("no choices"),
      Str("busy"),
      JNull }

MedgemmaReplies ==
    { HttpReply(200, TRUE, b) : b \in MedgemmaBodies }
    \cup { HttpReply(200, FALSE, JNull), HttpReply(500, TRUE, JObj(<<>>)), RaiseReply }

\* the image of a call: no path, the path of an upload and the path of a
\* file that is gone
ImageInputs ==
    { [path |-> JNull, exists |-> FALSE], [path |-> Str("/tmp/chest.png"), exists |-> TRUE],
      [path |-> Str("/tmp/gone.png"), exists |-> FALSE] }

\* what the MedReason endpoint answers, one answer of each kind
ReasonReplies ==
    { HttpReply(200, TRUE, b) : b \in Shapes(ShapedAnswer) \cup OddBodies }
    \cup { HttpReply(200, FALSE, JNull), HttpReply(500, TRUE, JObj(<<>>)),
           HttpReply(404, FALSE, JNull), RaiseReply }

\* the contents of the Summary box when Save is clicked
SummaryTexts ==
    { <<>>, JsonDumps(FullRecord), NoJsonFound, InvalidJsonFormat, NoValidJsonFound,
      Chars("[1]"), Chars("{\"severity\": \"Mild\"") }

\* ------------------------------------------------------------------------
\* State
\* ------------------------------------------------------------------------
VARIABLES
    transcription,  \* the Transcription box of the doctor tab
    reply,          \* how the MedReason endpoint answers in this behaviour
    arg,            \* the argument of a direct call of save_diagnosis_to_db
    rawOutput,      \* doctor_raw_output
    jsonOutput,     \* doctor_json_output, the Summary box
    status,         \* doctor_processing_status
    summaryFrom,    \* who wrote the Summary box last: "none", "diagnose", "user"
    lastOp,         \* the last action: "none", "diagnose", "edit", "save"
    diag,           \* outcome of the last diagnose_doctor_notes
    saved,          \* outcome of the last save
    savedInput,     \* the json_data of the last save_diagnosis_to_db
    dbConnects,     \* calls of pymysql.connect so far
    dbOpen,         \* connections opened and not closed
    rows,           \* the committed rows of table triage
    nextId,         \* the next AUTO_INCREMENT value of table triage
    ops,            \* user actions so far
    input,          \* the arguments of the last call of the other functions
    output,         \* what that call returned
    filesOpen       \* audio file handles opened and not closed

vars == << transcription, reply, arg, rawOutput, jsonOutput, status, summaryFrom,
           lastOp, diag, saved, savedInput, dbConnects, dbOpen, rows, nextId, ops,
           input, output, filesOpen >>

\* the state of the doctor tab and of the database
tabVars == << transcription, reply, arg, rawOutput, jsonOutput, status, summaryFrom,
              lastOp, diag, saved, savedInput, dbConnects, dbOpen, rows, nextId >>

\* no call yet
NoInput == [fn |-> "none"]

NoOutput == [fn |-> "none"]

NoDiagnose == DiagnoseOutcome(<<>>, <<>>, <<>>, "none", 0, <<>>, <<>>)

NoSave == SaveOutcome(FALSE, <<>>, "none", 0, FALSE, FALSE, <<>>, FALSE, FALSE)

InitCommon ==
    /\ rawOutput = <<>>
    /\ jsonOutput = <<>>
    /\ status = <<>>
    /\ summaryFrom = "none"
    /\ lastOp = "none"
    /\ diag = NoDiagnose
    /\ saved = NoSave
    /\ savedInput = <<>>
    /\ dbConnects = 0
    /\ dbOpen = 0
    /\ rows = <<>>
    /\ nextId = 1
    /\ ops = 0
    /\ output = NoOutput
    /\ filesOpen = 0

\* the interface after create_interface, with the notes already transcribed
\* (or not) and an endpoint that answers in one of the ways of Replies
Init ==
    /\ \/ transcription = NotesText /\ reply \in Replies
       \/ transcription \in BlankTranscriptions /\ reply = RaiseReply
    /\ arg = <<>>
    /\ input = NoInput
    /\ InitCommon

\* the effect of one save on the database: execute consumes an
\* AUTO_INCREMENT value, commit makes the row visible, a connection that is
\* not closed stays open
DbAfter(o) ==
    /\ dbConnects' = dbConnects + o.connects
    /\ dbOpen' = dbOpen + (IF o.opened /\ ~o.closed THEN 1 ELSE 0)
    /\ rows' = IF o.committed THEN Append(rows, o.args) ELSE rows
    /\ nextId' = IF o.executed /\ o.reached \in {"commit", "return"} THEN nextId + 1 ELSE nextId

\* the outputs of doctor_diagnose_btn.click
Diagnosed(o) ==
    /\ rawOutput' = o.raw
    /\ jsonOutput' = o.json
    /\ status' = o.status
    /\ diag' = o

\* the output of save_to_db_btn.click and the effect of the save
Saved(o) ==
    /\ saved' = o
    /\ status' = o.msg
    /\ DbAfter(o)

\* doctor_diagnose_btn.click
Diagnose ==
    /\ ops < MaxOps
    /\ Diagnosed(DiagnoseDoctorNotes(transcription, reply))
    /\ summaryFrom' = "diagnose"
    /\ lastOp' = "diagnose"
    /\ ops' = ops + 1
    /\ UNCHANGED << transcription, reply, arg, saved, savedInput, dbConnects, dbOpen, rows, nextId >>
    /\ UNCHANGED << input, output, filesOpen >>

\* the user types into the Summary box
EditSummary ==
    /\ ops < MaxOps
    /\ \E text \in EditedSummaries :
        /\ text # jsonOutput
        /\ jsonOutput' = text
    /\ summaryFrom' = "user"
    /\ lastOp' = "edit"
    /\ ops' = ops + 1
    /\ UNCHANGED << transcription, reply, arg, rawOutput, status, diag, saved, savedInput,
                    dbConnects, dbOpen, rows, nextId >>
    /\ UNCHANGED << input, output, filesOpen >>

\* save_to_db_btn.click
ClickSave ==
    /\ ops < MaxOps
    /\ \E dbo \in DbOutcomes : Saved(SaveDiagnosisToDbButton(jsonOutput, dbo, nextId))
    /\ savedInput' = jsonOutput
    /\ lastOp' = "save"
    /\ ops' = ops + 1
    /\ UNCHANGED << transcription, reply, arg, rawOutput, jsonOutput, summaryFrom, diag >>
    /\ UNCHANGED << input, output, filesOpen >>

Next == Diagnose \/ EditSummary \/ ClickSave

Spec == Init /\ [][Next]_vars

\* ------------------------------------------------------------------------
\* save_diagnosis_to_db called once on each argument of Arguments
\* ------------------------------------------------------------------------
InitSave ==
    /\ transcription = <<>>
    /\ reply = RaiseReply
    /\ arg \in Arguments
    /\ input = NoInput
    /\ InitCommon

\* the result of the call and its effect
Called(o) ==
    /\ saved' = o
    /\ DbAfter(o)

SaveCall ==
    /\ saved.reached = "none"
    /\ \E dbo \in DbOutcomes : Called(SaveDiagnosisToDb(arg, dbo, nextId))
    /\ savedInput' = arg
    /\ lastOp' = "save"
    /\ ops' = ops + 1
    /\ UNCHANGED << transcription, reply, arg, rawOutput, jsonOutput, status, summaryFrom, diag >>
    /\ UNCHANGED << input, output, filesOpen >>

NextSave == SaveCall

SpecSave == InitSave /\ [][NextSave]_vars

\* ------------------------------------------------------------------------
\* parse_medreason_response called once on each result of ParseInputs
\* ------------------------------------------------------------------------
\* the doctor tab untouched
InitIdle ==
    /\ transcription = <<>>
    /\ reply = RaiseReply
    /\ arg = <<>>
    /\ InitCommon

InitParse ==
    /\ input \in { [fn |-> "parse", result |-> r] : r \in ParseInputs }
    /\ InitIdle

ParseCall ==
    /\ output.fn = "none"
    /\ output' = [fn |-> "parse", sections |-> ParseMedreasonResponse(input.result)]
    /\ ops' = ops + 1
    /\ UNCHANGED << tabVars, input, filesOpen >>

NextParse == ParseCall

SpecParse == InitParse /\ [][NextParse]_vars

\* ------------------------------------------------------------------------
\* the three language lookups called once on each value of LanguageValues
\* ------------------------------------------------------------------------
InitLanguage ==
    /\ input \in { [fn |-> "language", v |-> v] : v \in LanguageValues }
    /\ InitIdle

\* the result of one lookup
Looked(fn, res) ==
    /\ output.fn = "none"
    /\ output' = [fn |-> fn, res |-> res]
    /\ ops' = ops + 1
    /\ UNCHANGED << tabVars, input, filesOpen >>

GetIsoLanguageCodeCall == Looked("get_iso_language_code", GetIsoLanguageCode(input.v))

GetLanguageCodeCall == Looked("get_language_code", GetLanguageCode(input.v))

NormalizeLanguageNameCall == Looked("normalize_language_name", NormalizeLanguageName(input.v))

NextLanguage == GetIsoLanguageCodeCall \/ GetLanguageCodeCall \/ NormalizeLanguageNameCall

SpecLanguage == InitLanguage /\ [][NextLanguage]_vars

\* ------------------------------------------------------------------------
\* transcriptions, one after the other
\* ------------------------------------------------------------------------
InitTranscribe ==
    /\ input = NoInput
    /\ InitIdle

\* the result of one transcription and its effect on the open file handles
Transcribed(in, o) ==
    /\ input' = in
    /\ output' = [fn |-> in.fn, res |-> o]
    /\ filesOpen' = filesOpen + o.opens - o.closes
    /\ ops' = ops + 1
    /\ UNCHANGED tabVars

TranscribeAudioCall ==
    /\ ops < MaxOps
    /\ \E audio \in AudioInputs, auto_detect \in BOOLEAN,
          language \in DropdownLanguages, answer \in WhisperReplies :
        Transcribed([fn |-> "transcribe_audio", audio |-> audio, auto_detect |-> auto_detect,
                     language |-> language, reply |-> answer],
                    TranscribeAudio(audio, auto_detect, language, answer))

TranscribeAudioOnlyCall ==
    /\ ops < MaxOps
    /\ \E audio \in AudioInputs, language \in DropdownLanguages, answer \in WhisperReplies :
        Transcribed([fn |-> "transcribe_audio_only", audio |-> audio, auto_detect |-> FALSE,
                     language |-> language, reply |-> answer],
                    TranscribeAudioOnly(audio, language, answer))

NextTranscribe == TranscribeAudioCall \/ TranscribeAudioOnlyCall

SpecTranscribe == InitTranscribe /\ [][NextTranscribe]_vars

\* ------------------------------------------------------------------------
\* translate_text and translate_text_only called once on each text, pair
\* of languages and answer of the NLLB endpoint
\* ------------------------------------------------------------------------
InitTranslate ==
    /\ input \in { [fn |-> "translate", text |-> text, patient_language |-> p,
                    doctor_language |-> d, reply |-> answer] :
                    text \in TranslateTexts, p \in DropdownLanguages,
                    d \in DropdownLanguages, answer \in NllbReplies }
    /\ InitIdle

\* the result of one call
Translated(fn, res) ==
    /\ output.fn = "none"
    /\ output' = [fn |-> fn, res |-> res]
    /\ ops' = ops + 1
    /\ UNCHANGED << tabVars, input, filesOpen >>

\* translate_text as line 1118 calls it
TranslateTextCall ==
    /\ input.patient_language.t = "str"
    /\ input.doctor_language.t = "str"
    /\ Translated("translate_text",
            TranslateText(input.text, GetLanguageCode(input.patient_language).val,
                          GetLanguageCode(input.doctor_language).val, input.reply))

TranslateTextOnlyCall ==
    Translated("translate_text_only",
        TranslateTextOnly(input.text, input.patient_language, input.doctor_language,
                          input.reply))

NextTranslate == TranslateTextCall \/ TranslateTextOnlyCall

SpecTranslate == InitTranslate /\ [][NextTranslate]_vars

\* ------------------------------------------------------------------------
\* the handlers of the interface, each called once on each of its inputs
\* and each answer of its backends
\* ------------------------------------------------------------------------
InitHandlers ==
    /\ \/ \E r \in [1..4 -> ProbeReplies] :
            input = [fn |-> "check_all_services", replies |-> r]
       \/ \E audio \in AudioInputs, language \in DropdownLanguages, answer \in WhisperReplies :
            input = [fn |-> "transcribe_audio_only", audio |-> audio,
                     language |-> language, reply |-> answer]
       \/ \E text \in TranslateTexts, p \in DropdownLanguages, d \in DropdownLanguages,
             answer \in NllbReplies :
            input = [fn |-> "translate_text_only", text |-> text, patient_language |-> p,
                     doctor_language |-> d, reply |-> answer]
       \/ \E audio \in AudioInputs, answer \in WhisperReplies :
            input = [fn |-> "transcribe_doctor_notes", audio |-> audio, reply |-> answer]
       \/ \E text \in {NotesText} \cup BlankTranscriptions, answer \in ReasonReplies :
            input = [fn |-> "diagnose_doctor_notes", text |-> text, reply |-> answer]
       \/ \E image \in ImageInputs, answer \in MedgemmaReplies :
            input = [fn |-> "analyze_xray_image", image |-> image, reply |-> answer]
       \/ \E data \in SummaryTexts, dbo \in DbOutcomes :
            input = [fn |-> "save_diagnosis_to_db_button", data |-> data, dbo |-> dbo]
    /\ InitIdle

\* n requests to the endpoint of one model type
Sent(n, model_type) == [i \in 1..n |-> Chars(model_type)]

\* The handler input.fn has run: res is its outcome, message the status text
\* it returned and returned all the texts it returned; raised says that an
\* exception left it; requests are the model types whose endpoint was sent
\* a request, in order; opens, closes and connects count the files opened
\* and closed and the calls of pymysql.connect.
Handled(res, message, returned, raised, requests, opens, closes, connects) ==
    /\ output.fn = "none"
    /\ output' = [fn |-> input.fn, res |-> res, status |-> message, returned |-> returned,
                  raised |-> raised, requests |-> requests, opens |-> opens,
                  closes |-> closes, connects |-> connects]
    /\ filesOpen' = filesOpen + opens - closes
    /\ ops' = ops + 1
    /\ UNCHANGED << transcription, reply, arg, input >>

\* the doctor tab and the database untouched
HandledElsewhere ==
    UNCHANGED << rawOutput, jsonOutput, status, summaryFrom, lastOp, diag, saved, savedInput,
                 dbConnects, dbOpen, rows, nextId >>

CheckedAllServices(o) ==
    /\ Handled(o, o.text, <<o.text>>, o.raised, o.requests, 0, 0, 0)
    /\ HandledElsewhere

\* check_btn.click
CheckAllServicesHandler ==
    /\ input.fn = "check_all_services"
    /\ CheckedAllServices(CheckAllServices(input.replies))

TranscribedOnly(o) ==
    /\ Handled(o, TextboxValue(o.second), <<TextboxValue(o.first), TextboxValue(o.second)>>,
               FALSE, Sent(o.requests, "whisper"), o.opens, o.closes, 0)
    /\ HandledElsewhere

\* transcribe_btn.click
TranscribeAudioOnlyHandler ==
    /\ input.fn = "transcribe_audio_only"
    /\ TranscribedOnly(TranscribeAudioOnly(input.audio, input.language, input.reply))

TranslatedOnly(o) ==
    /\ Handled(o, o.second, <<TextboxValue(o.first), o.second>>, FALSE,
               Sent(o.requests, "nllb"), 0, 0, 0)
    /\ HandledElsewhere

\* translate_btn.click
TranslateTextOnlyHandler ==
    /\ input.fn = "translate_text_only"
    /\ TranslatedOnly(TranslateTextOnly(input.text, input.patient_language,
                                        input.doctor_language, input.reply))

\* doctor_transcribe_btn.click
TranscribeDoctorNotesHandler ==
    /\ input.fn = "transcribe_doctor_notes"
    /\ TranscribedOnly(TranscribeDoctorNotes(input.audio, input.reply))

DiagnosedNotes(o) ==
    /\ Handled(o, o.status, <<o.raw, o.json, o.status>>, FALSE,
               Sent(o.requests, "medreason"), 0, 0, 0)
    /\ Diagnosed(o)
    /\ summaryFrom' = "diagnose"
    /\ lastOp' = "diagnose"
    /\ UNCHANGED << saved, savedInput, dbConnects, dbOpen, rows, nextId >>

\* doctor_diagnose_btn.click
DiagnoseDoctorNotesHandler ==
    /\ input.fn = "diagnose_doctor_notes"
    /\ DiagnosedNotes(DiagnoseDoctorNotes(input.text, input.reply))

AnalyzedXray(o) ==
    /\ Handled(o, o.status, <<o.status, TextboxValue(o.analysis)>>, FALSE,
               Sent(o.requests, "medgemma"), o.opens, o.closes, 0)
    /\ HandledElsewhere

\* diagnose_xray_btn.click
AnalyzeXrayImageHandler ==
    /\ input.fn = "analyze_xray_image"
    /\ AnalyzedXray(AnalyzeXrayImage(input.image, input.reply))

SavedSummary(o) ==
    /\ Handled(o, o.msg, <<o.msg>>, FALSE, <<>>, 0, 0, o.connects)
    /\ Saved(o)
    /\ savedInput' = input.data
    /\ lastOp' = "save"
    /\ UNCHANGED << rawOutput, jsonOutput, summaryFrom, diag >>

\* save_to_db_btn.click
SaveDiagnosisToDbButtonHandler ==
    /\ input.fn = "save_diagnosis_to_db_button"
    /\ SavedSummary(SaveDiagnosisToDbButton(input.data, input.dbo, nextId))

NextHandlers ==
    \/ CheckAllServicesHandler
    \/ TranscribeAudioOnlyHandler
    \/ TranslateTextOnlyHandler
    \/ TranscribeDoctorNotesHandler
    \/ DiagnoseDoctorNotesHandler
    \/ AnalyzeXrayImageHandler
    \/ SaveDiagnosisToDbButtonHandler

SpecHandlers == InitHandlers /\ [][NextHandlers]_vars

\* ------------------------------------------------------------------------
\* Properties
\* ------------------------------------------------------------------------
\* nesting depth after the characters from..k of s
Depth(s, from, k) ==
    Cardinality({i \in from..k : s[i] = "{"}) - Cardinality({i \in from..k : s[i] = "}"})

FirstOpen(s) == Min({i \in 1..Len(s) : s[i] = "{"})

\* the decoded payload of the last save and one of its fields
SavedPayload == JsonLoads(savedInput).val

Supplied(key) == HasKey(SavedPayload, Chars(key))

SuppliedValue(key) == ValueOf(SavedPayload, Chars(key))

IsPrettyObject(text) ==
    LET r == JsonLoads(text)
    IN  r.ok /\ r.val.t = "obj" /\ JsonDumps(r.val) = text

\* C2: the extraction of diagnose_doctor_notes yields a parsed object, "No
\* JSON found in response" or "Invalid JSON format", and nothing else.
C2_ThreeOutcomes ==
    diag.site \in {"1351", "1353", "1355", "1357", "1360"} =>
        \/ IsPrettyObject(diag.json)
        \/ diag.json = NoJsonFound
        \/ diag.json = InvalidJsonFormat

\* C3: save_diagnosis_to_db on an empty value or on either sentinel returns
\* a failure at once: no connection is opened and nothing is inserted.
C3_SentinelsRefused ==
    (saved.reached # "none" /\ savedInput \in {<<>>, NoJsonFound, InvalidJsonFormat}) =>
        /\ ~saved.ok
        /\ saved.reached = "guard"
        /\ saved.connects = 0
        /\ ~saved.opened
        /\ ~saved.executed
        /\ dbConnects = 0
        /\ rows = <<>>

C3_Witness == saved.reached = "guard" /\ savedInput = InvalidJsonFormat

\* C4: a save of the Summary that diagnose_doctor_notes wrote without
\* parsing an object fails and opens no database connection.
C4_UnparsedNeverSaved ==
    (lastOp = "save" /\ summaryFrom = "diagnose" /\ diag.site # "1351") =>
        /\ ~saved.ok
        /\ saved.msg # <<>>
        /\ saved.connects = 0
        /\ ~saved.opened
        /\ ~saved.executed

\* malformed JSON after the marker, then a save
C4_Witness ==
    /\ lastOp = "save"
    /\ summaryFrom = "diagnose"
    /\ diag.site = "1353"
    /\ Contains(diag.raw, TriageMarker)
    /\ savedInput = InvalidJsonFormat
    /\ ~saved.ok

\* C5: once a payload has been decoded and a connection obtained, validation
\* completes with nine values and the insert is attempted.
C5_ValidationTotal ==
    saved.reached \notin {"none", "guard", "parse", "connect"} =>
        /\ saved.reached # "validate"
        /\ saved.executed
        /\ Len(saved.args) = 9

\* C6: none of the seven text values of an insert is null.
C6_TextNeverNull ==
    saved.executed => \A c \in TextColumns : saved.args[c] # JNull

\* the payload of the example: four keys only
ExampleRecord ==
    JObj(<< Pair("patient_name", Str("Jane Doe")), Pair("severity", Str("Moderate")),
            Pair("date_of_birth", Str("1978-01-10")),
            Pair("visit_time", Str("2025-04-23T14:30:00")) >>)

ExampleArgs ==
    << Str("Jane Doe"), Str("1978-01-10"), Str("2025-04-23 14:30:00"), Str("Moderate"),
       Str("N/A"), Str("N/A"), Str("N/A"), Str("N/A"), Str("N/A") >>

\* C7: in an insert, a column whose key is absent from the payload gets
\* "N/A" (text columns) or null (date_of_birth, visit_time), a text column
\* whose key is present gets the payload's value, and the four-key example
\* gives its four values and "N/A" five times.
C7_MissingKeys ==
    saved.executed =>
        /\ \A c \in 1..9 :
            ~Supplied(Columns[c]) =>
                saved.args[c] = (IF c \in TextColumns THEN JStr(NA) ELSE JNull)
        /\ \A c \in TextColumns :
            Supplied(Columns[c]) => saved.args[c] = SuppliedValue(Columns[c])
        /\ savedInput = JsonDumps(ExampleRecord) => saved.args = ExampleArgs

C7_Witness == saved.executed /\ savedInput = JsonDumps(ExampleRecord)

\* text of the shape YYYY-MM-DD that names a day of the calendar
IsYMD(s) ==
    /\ Len(s) = 10
    /\ \A i \in {1, 2, 3, 4, 6, 7, 9, 10} : s[i] \in Digits
    /\ s[5] = "-" /\ s[8] = "-"
    /\ DateExists(ToInt(SubSeq(s, 1, 4)), ToInt(SubSeq(s, 6, 7)), ToInt(SubSeq(s, 9, 10)))

\* text of the shape YYYY-MM-DD HH:MM:SS that names a second of a day
IsYMDHMS(s) ==
    /\ Len(s) = 19
    /\ IsYMD(SubSeq(s, 1, 10))
    /\ s[11] = " "
    /\ \A i \in {12, 13, 15, 16, 18, 19} : s[i] \in Digits
    /\ s[14] = ":" /\ s[17] = ":"
    /\ ToInt(SubSeq(s, 12, 13)) <= 23
    /\ ToInt(SubSeq(s, 15, 16)) <= 59
    /\ ToInt(SubSeq(s, 18, 19)) <= 59

\* C8: the date_of_birth of an insert is the payload's text when that text
\* is YYYY-MM-DD, and null for every other payload.
C8_DateOfBirth ==
    saved.executed =>
        saved.args[2] =
            (IF Supplied("date_of_birth")
                /\ SuppliedValue("date_of_birth").t = "str"
                /\ IsYMD(SuppliedValue("date_of_birth").s)
             THEN SuppliedValue("date_of_birth") ELSE JNull)

\* the visit_time rule as the specification words it
SpecifiedVisitTime(s) ==
    LET s1 == Replace(s, "T", " ")
        s2 == IF Len(s1) = 10 /\ Count(s1, "-") = 2 THEN s1 \o Chars(" 00:00:00") ELSE s1
    IN  IF IsYMDHMS(s2) THEN JStr(s2) ELSE JNull

\* C9: the visit_time of an insert is the payload's text with T replaced by
\* a blank and midnight appended to a bare date when the result is
\* YYYY-MM-DD HH:MM:SS, and null for every other payload.
C9_VisitTime ==
    saved.executed =>
        saved.args[3] =
            (IF Supplied("visit_time") /\ SuppliedValue("visit_time").t = "str"
             THEN SpecifiedVisitTime(SuppliedValue("visit_time").s) ELSE JNull)

\* C10: normalizing visit_time twice is normalizing it once, and a
\* visit_time that was passed to an insert normalizes to itself.
C10_VisitTimeIdempotent ==
    saved.executed =>
        /\ saved.args[3] # JNull => NormalizeVisitTime(saved.args[3]) = Ret(saved.args[3])
        /\ Supplied("visit_time") =>
            LET once == NormalizeVisitTime(SuppliedValue("visit_time"))
            IN  ~once.raised => NormalizeVisitTime(once.val) = once

\* an insert whose visit_time was changed by the normalization
C10_Witness ==
    /\ saved.executed
    /\ Supplied("visit_time")
    /\ SuppliedValue("visit_time") = Str("2025-04-23")
    /\ saved.args[3] = Str("2025-04-23 00:00:00")

\* the payload has all ten keys, every value is text and both dates are in
\* canonical form
TenKeys == Columns \o << "medical_reasoning" >>

WellFormedPayload ==
    /\ SavedPayload.t = "obj"
    /\ \A k \in 1..10 : Supplied(TenKeys[k]) /\ SuppliedValue(TenKeys[k]).t = "str"
    /\ IsYMD(SuppliedValue("date_of_birth").s)
    /\ IsYMDHMS(SuppliedValue("visit_time").s)

\* the payload without one of its keys
Without(d, key) ==
    JObj(SelectSeq(d.m, LAMBDA member : member.k # Chars(key)))

\* C11: an insert has nine values; for a payload with all ten keys and
\* canonical dates they are the payload's nine column values unchanged; and
\* for any payload the medical_reasoning value is none of them and has no
\* influence on them.
C11_RoundTrip ==
    saved.executed =>
        /\ Len(saved.args) = 9
        /\ WellFormedPayload =>
            \A c \in 1..9 : saved.args[c] = SuppliedValue(Columns[c])
        /\ Supplied("medical_reasoning") =>
            /\ \A c \in 1..9 : saved.args[c] # SuppliedValue("medical_reasoning")
            /\ saved.args = InsertArgs(Without(SavedPayload, "medical_reasoning")).args

C11_Witness == saved.executed /\ saved.committed /\ WellFormedPayload

C13_ConnectionsClosed ==
    /\ saved.opened => saved.closed
    /\ dbOpen = 0

\* C14: the audio file handle a transcription opened is closed when the
\* function returns, on every path, and after any sequence of transcriptions
\* no handle is open.
C14_HandlesClosed ==
    /\ filesOpen = 0
    /\ output.fn \in {"transcribe_audio", "transcribe_audio_only"} =>
        output.res.closes = output.res.opens

\* a request that raised after the file was opened
C14_Witness ==
    /\ output.fn \in {"transcribe_audio", "transcribe_audio_only"}
    /\ output.res.site \in {"440", "1092"}
    /\ output.res.requests = 1
    /\ output.res.opens = 1
    /\ output.res.closes = 1

ParsedText == RawResponse(input.result).val.s

ParsedAText ==
    /\ output.fn = "parse"
    /\ ~RawResponse(input.result).raised
    /\ RawResponse(input.result).val.t = "str"

\* C16: parse_medreason_response on a response text does not raise, and
\* every section whose marker does not occur in the text is the empty
\* string; a text without any marker gives four empty sections.
C16_AbsentMarkersEmpty ==
    ParsedAText =>
        /\ ~output.sections.raised
        /\ ~Contains(ParsedText, ThinkingMarker) => output.sections.thinking = <<>>
        /\ ~Contains(ParsedText, ReasoningMarker) => output.sections.reasoning = <<>>
        /\ ~Contains(ParsedText, ConclusionMarker) => output.sections.conclusion = <<>>
        /\ (~Contains(ParsedText, TriageMarker) /\ ~Contains(ParsedText, FinalMarker)) =>
            output.sections.final_answer = <<>>

\* a text with words and braces but no marker
C16_Witness ==
    /\ ParsedAText
    /\ Contains(ParsedText, <<"{">>)
    /\ \A mk \in SectionMarkers : ~Contains(ParsedText, mk)
    /\ output.sections = Sections(<<>>, <<>>, <<>>, <<>>)

\* the text after the first occurrence of marker
After(text, marker) == SubSeq(text, Find(text, marker, 1) + Len(marker), Len(text))

\* the text cut at the earlier of two terminators, or whole when neither
\* occurs
EarliestCut(text, first, second) ==
    LET a == Find(text, first, 1)
        b == Find(text, second, 1)
    IN  IF a = 0 /\ b = 0 THEN text
        ELSE IF b = 0 \/ (a # 0 /\ a < b) THEN SubSeq(text, 1, a - 1)
        ELSE SubSeq(text, 1, b - 1)

\* C17: Thinking and Conclusion end at the first of "## Final Answer" and
\* "## Triage Summary" after their marker, Reasoning Process at the first of
\* "---" and "### Conclusion", or at the end of the text, whatever the order
\* of the two terminators.
C17_FirstTerminator ==
    ParsedAText =>
        /\ Contains(ParsedText, ThinkingMarker) =>
            output.sections.thinking =
                Strip(EarliestCut(After(ParsedText, ThinkingMarker), FinalMarker, TriageMarker))
        /\ Contains(ParsedText, ReasoningMarker) =>
            output.sections.reasoning =
                Strip(EarliestCut(After(ParsedText, ReasoningMarker), RuleMarker, ConclusionMarker))
        /\ Contains(ParsedText, ConclusionMarker) =>
            output.sections.conclusion =
                Strip(EarliestCut(After(ParsedText, ConclusionMarker), FinalMarker, TriageMarker))

\* the text after the last occurrence of marker
AfterLast(text, marker) == SubSeq(text, RFind(text, marker) + Len(marker), Len(text))

\* C18: the final-answer section is the text from the last occurrence of
\* "## Triage Summary", or of "## Final Answer" when there is no triage
\* summary, to the end of the text (before lines 579-592 pretty-print the
\* JSON in it).
C18_LastMarkerToEnd ==
    ParsedAText =>
        /\ Contains(ParsedText, TriageMarker) =>
            output.sections.final_answer =
                FormatFinalAnswer(Strip(AfterLast(ParsedText, TriageMarker)))
        /\ (~Contains(ParsedText, TriageMarker) /\ Contains(ParsedText, FinalMarker)) =>
            output.sections.final_answer =
                FormatFinalAnswer(Strip(AfterLast(ParsedText, FinalMarker)))

\* the eight supported languages: name, ISO code for Whisper, code for NLLB
Supported ==
    << <<"English", "en", "english">>, <<"German", "de", "german">>,
       <<"Polish", "pl", "polish">>, <<"Czech", "cs", "czech">>,
       <<"Slovak", "sk", "slovak">>, <<"Ukrainian", "uk", "ukrainian">>,
       <<"Bulgarian", "bg", "bulgarian">>, <<"Finnish", "fi", "finnish">> >>

\* the column of Supported an outbound lookup answers with
OutboundColumn == IF output.fn = "get_iso_language_code" THEN 2 ELSE 3

\* a text that is no supported name or code in any case, or a missing value
Unrecognized(v) ==
    \/ v = JNull
    \/ /\ v.t = "str"
       /\ \A i \in 1..8 : Lower(v.s) \notin {Lower(Chars(Supported[i][1])), Chars(Supported[i][2])}

\* C19: get_iso_language_code and get_language_code answer every text or
\* missing value with the code of a supported language: each supported name
\* gets its own code, no two names the same, and an unrecognized, empty or
\* missing value gets the code of English.
C19_OutboundTotal ==
    (output.fn \in {"get_iso_language_code", "get_language_code"} /\ input.v.t \in {"str", "null"}) =>
        /\ ~output.res.raised
        /\ \E i \in 1..8 : output.res.val = Str(Supported[i][OutboundColumn])
        /\ \A i \in 1..8 :
            input.v = Str(Supported[i][1]) => output.res.val = Str(Supported[i][OutboundColumn])
        /\ \A i, j \in 1..8 : i # j => Supported[i][OutboundColumn] # Supported[j][OutboundColumn]
        /\ Unrecognized(input.v) => output.res.val = Str(Supported[1][OutboundColumn])

\* an unsupported language sent to Whisper as English
C19_Witness ==
    /\ output.fn = "get_iso_language_code"
    /\ input.v = Str("French")
    /\ output.res = Ret(Str("en"))

\* the lookup of the last call, applied to another value
SameLookup(v) ==
    IF output.fn = "get_iso_language_code" THEN GetIsoLanguageCode(v)
    ELSE IF output.fn = "get_language_code" THEN GetLanguageCode(v)
    ELSE NormalizeLanguageName(v)

\* C20: in each of the three lookups a name or code in any upper/lower-case
\* spelling gets the result of its canonical spelling.
C20_CaseInsensitive ==
    (output.fn # "none" /\ input.fn = "language" /\ input.v.t = "str") =>
        \A c \in CanonicalSpellings :
            Lower(input.v.s) = Lower(c) => output.res = SameLookup(JStr(c))

\* C21: normalize_language_name does not raise, and every value that is not
\* the name or the ISO code of a supported language in any case, the empty
\* text and a missing value included, gets "Unknown", never "English" or
\* another language name.
C21_UnknownSentinel ==
    output.fn = "normalize_language_name" =>
        /\ ~output.res.raised
        /\ Unrecognized(input.v) => output.res.val = Str("Unknown")

\* the first '{' of final and the brace that closes it by depth counting
BalancedObject(final) ==
    SubSeq(final, Find(final, <<"{">>, 1), BalancedEnd(final, Find(final, <<"{">>, 1)))

\* C24: when the final-answer section of parse_medreason_response holds a
\* brace-balanced substring that starts at its first '{', final_answer is
\* that substring pretty-printed if it is JSON, whatever prose follows it,
\* and the "Invalid JSON format" sentinel if it is not.
C24_BalancedFinalAnswer ==
    (/\ ParsedAText
     /\ Contains(FinalAnswerSection(ParsedText), <<"{">>)
     /\ BalancedEnd(FinalAnswerSection(ParsedText),
                    Find(FinalAnswerSection(ParsedText), <<"{">>, 1)) # -1) =>
        output.sections.final_answer =
            IF JsonLoads(BalancedObject(FinalAnswerSection(ParsedText))).ok
            THEN JsonDumps(JsonLoads(BalancedObject(FinalAnswerSection(ParsedText))).val)
            ELSE InvalidJsonFormat

\* C26: when the text diagnose_doctor_notes extracts from is itself a valid
\* JSON object, braces inside its string values included, json_output is
\* that object pretty-printed, never "Invalid JSON format" or "No valid JSON
\* found in response".
C26_BracesInStrings ==
    (/\ diag.site \in {"1351", "1353", "1355", "1357"}
     /\ JsonLoads(diag.after).ok
     /\ JsonLoads(diag.after).val.t = "obj") =>
        /\ diag.site = "1351"
        /\ diag.json = JsonDumps(JsonLoads(diag.after).val)

\* the call of translate_text was answered 200 with a JSON object
TranslatedAnObject ==
    /\ output.fn = "translate_text"
    /\ input.reply.kind = "http"
    /\ input.reply.code = 200
    /\ input.reply.decoded
    /\ input.reply.body.t = "obj"

\* the element of a 'predictions' or 'outputs' list as the translation
Unwrapped(element) ==
    IF element.t = "obj" /\ HasKey(element, Chars("translated_text"))
    THEN ValueOf(element, Chars("translated_text"))
    ELSE element

\* the top-level fields, by position, that hold a non-empty list whose first
\* element is a string or a mapping with 'translated_text' or 'translation'
ListFields(result) ==
    { i \in 1..Len(result.m) :
        /\ result.m[i].v.t = "arr"
        /\ result.m[i].v.m # <<>>
        /\ \/ result.m[i].v.m[1].v.t = "str"
           \/ /\ result.m[i].v.m[1].v.t = "obj"
              /\ \/ HasKey(result.m[i].v.m[1].v, Chars("translated_text"))
                 \/ HasKey(result.m[i].v.m[1].v, Chars("translation")) }

FirstListField(result) == CHOOSE i \in ListFields(result) : \A j \in ListFields(result) : i <= j

\* the first element of such a list as the translation
ListTranslation(element) ==
    IF element.t = "str" THEN element
    ELSE IF HasKey(element, Chars("translated_text"))
    THEN ValueOf(element, Chars("translated_text"))
    ELSE ValueOf(element, Chars("translation"))

RequestFailed(answer) == answer.kind = "raise" \/ answer.code # 200

\* C27: translate_text_only reports "Translated from X to Y." only when the
\* backend answered 200, and when the request fails the status is not that
\* message and the text of the error is not returned as the translation.
C27_FailureNotTranslation ==
    output.fn = "translate_text_only" =>
        /\ output.res.second = MsgTranslated(PyStr(input.patient_language),
                                             PyStr(input.doctor_language)) =>
                (input.reply.kind = "http" /\ input.reply.code = 200)
        /\ (output.res.requests > 0 /\ RequestFailed(input.reply)) =>
                /\ output.res.second # MsgTranslated(PyStr(input.patient_language),
                                                     PyStr(input.doctor_language))
                /\ output.res.first \notin
                        {JStr(MsgError), JStr(MsgTranslationFailed(input.reply.code))}

\* translate_text_only was called with two names of the same language
SameLanguage ==
    /\ output.fn = "translate_text_only"
    /\ input.patient_language.t = "str"
    /\ input.doctor_language.t = "str"
    /\ Lower(input.patient_language.s) = Lower(input.doctor_language.s)

\* no request, the transcription as the translation, and the status of line
\* 1109
Skipped ==
    /\ output.res.requests = 0
    /\ output.res.first = JStr(input.text)
    /\ output.res.second = MsgTranslationSkipped(input.patient_language.s)

\* C29 as stated: whenever the two languages are equal ignoring case,
\* translate_text_only sends no request, returns the transcription
\* unchanged and says that the translation was skipped.
C29_SkippedWhenSame == SameLanguage => Skipped

\* C29: translate_text_only on a transcription that is not blank, when the
\* two languages are equal ignoring case, sends no request, returns the
\* transcription unchanged and says that the translation was skipped.
C29_SkippedWhenSameAndText == (SameLanguage /\ Strip(input.text) # <<>>) => Skipped

\* German to german: skipped
C29_Witness ==
    /\ SameLanguage
    /\ input.patient_language # input.doctor_language
    /\ input.text = PatientText
    /\ Skipped

\* a handler of the interface has run
HandlerRan ==
    output.fn \in { "check_all_services", "transcribe_audio_only", "translate_text_only",
                    "transcribe_doctor_notes", "diagnose_doctor_notes",
                    "analyze_xray_image", "save_diagnosis_to_db_button" }

ServiceTypes == << Chars("medreason"), Chars("whisper"), Chars("nllb"), Chars("medgemma") >>

\* the answer to the i-th request of the action
ReplyTo(i) ==
    IF output.fn = "check_all_services"
    THEN input.replies[CHOOSE k \in 1..4 : ServiceTypes[k] = output.requests[i]]
    ELSE input.reply

\* the words the handlers report a failed request with
FailureWords ==
    { Chars("Error: "), Chars(" failed: API returned status "), Chars(" API error: "),
      Chars(" API returned status code: ") }

ReportsFailure(text) == \E w \in FailureWords : Contains(text, w)

\* the i-th request of the action failed; status 400 is what the health
\* check expects of Whisper
FailedRequest(i) ==
    /\ RequestFailed(ReplyTo(i))
    /\ ~(/\ output.fn = "check_all_services"
         /\ output.requests[i] = Chars("whisper")
         /\ ReplyTo(i).kind = "http"
         /\ ReplyTo(i).code = 400)

\* no endpoint is sent two requests, and a failed request is reported in
\* the texts returned
NoRetry ==
    /\ \A i, j \in 1..Len(output.requests) :
            output.requests[i] = output.requests[j] => i = j
    /\ (\E i \in 1..Len(output.requests) : FailedRequest(i)) =>
            \E k \in 1..Len(output.returned) : ReportsFailure(output.returned[k])

C23_HandlersReturnStatus ==
    HandlerRan =>
        /\ ~output.raised
        /\ output.status # <<>>

\* a health check with a transport failure that returned its report
C23_Witness ==
    /\ output.fn = "check_all_services"
    /\ \E i \in 1..4 : input.replies[i] = RaiseReply
    /\ ~output.raised
    /\ Contains(output.status, Chars(" API error: "))

\* the input the handler needs is absent
InputAbsent ==
    IF output.fn \in {"transcribe_audio_only", "transcribe_doctor_notes"}
    THEN ~Truthy(input.audio.path)
    ELSE IF output.fn \in {"translate_text_only", "diagnose_doctor_notes"}
    THEN Strip(input.text) = <<>>
    ELSE IF output.fn = "analyze_xray_image" THEN ~Truthy(input.image.path)
    ELSE IF output.fn = "save_diagnosis_to_db_button" THEN input.data = <<>>
    ELSE FALSE

\* the message a handler answers absent input with
AbsentMessage ==
    IF output.fn \in {"transcribe_audio_only", "transcribe_doctor_notes"}
    THEN Chars("No audio provided. Please upload or record audio first.")
    ELSE IF output.fn = "translate_text_only"
    THEN Chars("No text to translate. Please transcribe audio first.")
    ELSE IF output.fn = "diagnose_doctor_notes"
    THEN Chars("No transcription to analyze. Please transcribe audio first.")
    ELSE IF output.fn = "analyze_xray_image"
    THEN Chars("No image uploaded. Please upload an X-ray image first.")
    ELSE Chars("No data to save. Please run a diagnosis first.")

\* C28: a handler whose required input is absent (no audio path, a blank
\* text to translate or to diagnose, no image, an empty summary) sends no
\* request and opens no file and no database connection: it returns its
\* message at once.
C28_NothingWithoutInput ==
    (HandlerRan /\ InputAbsent) =>
        /\ output.requests = <<>>
        /\ output.opens = 0
        /\ output.connects = 0
        /\ output.status = AbsentMessage

\* a text of blanks only, with two different languages and an endpoint
\* that would answer
C28_Witness ==
    /\ output.fn = "translate_text_only"
    /\ input.text # <<>>
    /\ InputAbsent
    /\ input.patient_language = Str("German")
    /\ input.doctor_language = Str("English")
    /\ input.reply.kind = "http"
    /\ output.requests = <<>>
    /\ output.status = AbsentMessage

ServiceLabels ==
    << Chars("MedReason LLM"), Chars("Whisper STT"), Chars("NLLB Translator"),
       Chars("MedGemma Multimodal") >>

\* the probe of backend i was answered with a status that counts as alive
Available(i) ==
    /\ input.replies[i].kind = "http"
    /\ \/ input.replies[i].code = 200
       \/ i = 2 /\ input.replies[i].code = 400

\* C30: check_all_services sends one request to each backend, in the order
\* MedReason, Whisper, NLLB, MedGemma, whatever the earlier probes met, and
\* returns four lines in that order; line i starts with the check mark
\* exactly when probe i was answered 200, or 400 for Whisper, and with the
\* cross for every other status and for an exception.
C30_FourProbesInOrder ==
    output.fn = "check_all_services" =>
        /\ output.requests = ServiceTypes
        /\ Len(output.res.lines) = 4
        /\ output.res.text = JoinLines(output.res.lines, 1)
        /\ \A i \in 1..4 :
            /\ output.res.probes[i].ok = Available(i)
            /\ MatchAt(output.res.lines[i],
                       (IF Available(i) THEN <<"U+2705">> ELSE <<"U+274C">>)
                            \o <<" ">> \o ServiceLabels[i] \o Chars(": "), 1)

\* MedReason unreachable, Whisper and NLLB both answering 400, MedGemma 200
C30_Witness ==
    /\ output.fn = "check_all_services"
    /\ input.replies[1] = RaiseReply
    /\ input.replies[2].code = 400
    /\ input.replies[3].code = 400
    /\ input.replies[4].code = 200
    /\ output.res.probes[2].ok
    /\ ~output.res.probes[3].ok
    /\ output.res.probes[4].ok

====
